---------------------------- MODULE Spec2Model ----------------------------
(***************************************************************************)
(* Fetch / cache / paginate engine of the PR-metrics scripts               *)
(* (roi_scripts/*.py): the transports graphql_query / api_request with     *)
(* their response cache and rate governor, the paginators of the GitHub,   *)
(* Azure DevOps, GitLab and Bitbucket variants, and the derivation of the  *)
(* two comparison windows.                                                 *)
(*                                                                         *)
(* Instants are integers.  A repository is the list of its pull requests   *)
(* in the order the API lists them (newest first); a PR is identified by   *)
(* its position in that list.  A payload is identified by the request key  *)
(* it answers and by the version of the server data it was built from.     *)
(***************************************************************************)
EXTENDS Integers, Sequences, FiniteSets, TLC

\* ------------------------------------------------------------------ bounds
MaxItems == 3        \* pull requests in the repository
PageSize == 2        \* items per page (scaled from first: 50 / $top: 100 / pagelen: 100)
MaxTime == 4         \* creation instants are 1..MaxTime
RecursionLimit == 2  \* nested transport calls the interpreter's stack holds (scaled from 1000)
MaxCalls == 3        \* transport calls issued by the stand-alone caller
MaxVer == 2          \* versions of the server's data
MaxWeeks == 2        \* largest WEEKS_BACK
MaxTicks == 2        \* clock ticks while the windows are derived
PoolSize == 2
MaxEntries == 2      \* comments and reviews of an item
MaxCommits == 2      \* commits of an item
MaxStamp == 3        \* latest timestamp, in hours after the item's creation        \* worker threads of the pool (scaled from MAX_PARALLEL_REQUESTS = 10)

\* ------------------------------------------------------- program constants
INITIAL_REMAINING == 5000
GITLAB_INITIAL_REMAINING == 600
RESET_ESTIMATE == 5000
MAX_RETRIES == 3
DEFAULT_RETRY_AFTER == 60
MIN_RATE_LIMIT_WAIT == 60

RATE_LIMIT_BUFFER(p) == IF p \in {"gitlab", "gitlab_csv"} THEN 50 ELSE 100

Min(a, b) == IF a < b THEN a ELSE b

VARIABLES
  \* configuration and environment
  platform,            \* which script runs
  repo,                \* the repository's PRs as the API lists them
  branch,              \* self.branch ("" = all branches)
  start_datetime,      \* window start
  end_datetime,        \* window end
  serverVer,           \* version of the mutable PR data on the server
  \* transport (graphql_query / api_request)
  tpc,                 \* position inside the transport call
  tkey,                \* cache key of the request (its pagination token)
  tlooked,             \* key looked up (and missed) by the current attempt
  tresp,               \* HTTP response being handled
  tresult,             \* value returned by the call
  tsource,             \* where the returned value came from
  posted,              \* a network call was made during the current call
  paused,              \* the caller slept since the last network call
  cache,               \* ResponseCache.cache
  remaining_requests,  \* remaining-quota counter
  attempts,            \* network attempts of the current call (saturating)
  \* paginator
  ppc,                 \* position of the paginator / caller
  cursor,              \* cursor / after_cursor / skip / page offset
  has_more,
  batch_count,
  all_prs,
  failed_pr_count,
  pr_data_cache,
  fetch_failed,        \* a page fetch of this run returned no payload
  run,                 \* 1 = first call, 2 = repeated call for the same window
  first_prs,           \* records returned by the first call
  run_net,             \* a network call was made during the current run
  \* analysis windows
  AUTOMATED_DATE,      \* the automation instant in hours of 2024 (-1 = empty)
  WEEKS_BACK,
  utc_offset,          \* UTC offset of the machine's local time zone, in hours
  now,                 \* the clock, in hours of 2024 (UTC)
  before_range,        \* result of calculate_before_auto_date_range
  after_range,         \* result of calculate_after_auto_date_range
  \* Bitbucket _get
  get_pc,              \* position inside _get
  attempt,             \* loop variable of _get
  response,            \* response being handled by _get
  slept,               \* seconds _get has slept so far
  get_result,          \* what _get returned
  \* Azure thread pool (process_pr_data per PR of a batch)
  task_pc,             \* position of the task of each PR of the batch
  task_call,           \* index of the detail request the task is at
  task_attempts,       \* requests sent by the task's current api_request
  detail_cache,        \* detail requests stored in the response cache
  contributor_emails,  \* PRs whose author was added to self.contributor_emails
  \* calculate_comparative_metrics
  before_metrics,      \* result of the beforeAuto period
  after_metrics,       \* result of the afterAuto period
  combined_metrics,    \* the comparative result
  \* one item through normalization and the per-record metrics
  pr_node,             \* the raw item of the page
  pr_record,           \* the record built from it
  pr_metrics,          \* the metrics computed from the record
  \* calculate_metrics_for_period_optimized over a list of records
  period_prs,          \* the records of the period, in the order processed
  period_result,       \* the period result
  first_result,        \* the result for the list in its first order
  \* main()
  settings_valid,      \* token, repository, date, URL and version are valid
  constructed,         \* a calculator has been constructed
  prompted,            \* prompt_for_config returned a configuration
  \* parse_repo_names / parse_project_ids
  name_string,         \* the argument
  names,               \* the list returned
  \* create_results_zip
  csv_files,           \* the argument: a list of paths
  fs,                  \* the state of each path of the file system
  archive,             \* the archive at the target path
  zip_result,          \* the value returned
  \* the metadata of the comparative result
  reported_date        \* combined_metrics['automation_date']

wVars == <<AUTOMATED_DATE, WEEKS_BACK, utc_offset, now, before_range, after_range>>
bVars == <<get_pc, attempt, response, slept, get_result>>
kVars == <<task_pc, task_call, task_attempts, detail_cache,
           contributor_emails>>
cVars == <<before_metrics, after_metrics, combined_metrics>>
mVars == <<pr_node, pr_record, pr_metrics>>
periodVars == <<period_prs, period_result, first_result>>
aVars == <<settings_valid, constructed, prompted>>
nVars == <<name_string, names>>
zVars == <<csv_files, fs, archive, zip_result>>
rVars == <<periodVars, aVars, nVars, zVars, reported_date>>
exceptPeriod == <<aVars, nVars, zVars, reported_date>>
exceptMain == <<periodVars, nVars, zVars, reported_date>>
exceptParse == <<periodVars, aVars, zVars, reported_date>>
exceptZip == <<periodVars, aVars, nVars, reported_date>>
exceptDate == <<periodVars, aVars, nVars, zVars>>
envVars == <<platform, repo, branch, start_datetime, end_datetime, serverVer,
             wVars, bVars, kVars, cVars, mVars, rVars>>
tVars == <<tpc, tkey, tlooked, tresp, tresult, tsource, posted, paused,
           cache, remaining_requests, attempts>>
pVars == <<ppc, cursor, has_more, batch_count, all_prs, failed_pr_count,
           pr_data_cache, fetch_failed, run, first_prs, run_net>>
vars == <<envVars, tVars, pVars>>

\* ----------------------------------------------------------------- values
Keys == 0..(MaxItems + 1)

NoneBody == [key |-> -1, ver |-> 0]                \* Python None
Body(k, v) == [key |-> k, ver |-> v]               \* response.json()
NoResp == [status |-> -1, errors |-> FALSE, hdr |-> -1, reset |-> 0, ver |-> 0]

GraphQL(p) == p \in {"github", "github_csv", "gitlab", "gitlab_csv"}

\* Responses the server (or the network) can produce for one call.
\* status 0 stands for session.post/get raising (timeout, connection error).
\* hdr is the remaining-quota header (-1 = absent), reset = 1 when a reset
\* time in the future is reported.
Responses(p, v) ==
  LET statuses == IF p \in {"github", "github_csv"} THEN {200, 403, 500}
                  ELSE {200, 429, 500}
      hdrs == IF p = "azure" THEN {-1}
              ELSE {-1, RATE_LIMIT_BUFFER(p) - 1}
      resets == IF p = "gitlab" THEN {0, 1} ELSE {0}
      errs(s) == IF GraphQL(p) /\ s = 200 THEN {FALSE, TRUE} ELSE {FALSE}
  IN  {x \in [status : statuses, errors : BOOLEAN, hdr : hdrs,
                 reset : resets, ver : {v}] :
            /\ x.errors \in errs(x.status)
            /\ (x.reset = 1 => x.hdr = RATE_LIMIT_BUFFER(p) - 1)}
      \cup {[status |-> 0, errors |-> FALSE, hdr |-> -1, reset |-> 0, ver |-> 0]}

\* ------------------------------------------------------------ ResponseCache
\* ResponseCache.get: the GitLab CSV script calls graphql_query without a
\* cache_key, so its lookup is always None.
CacheGet(p, c, k) == IF p = "gitlab_csv" THEN NoneBody ELSE c[k]

\* Variant of CacheSet that stores nothing.
CacheSet_Dropping(p, c, k, b) == c

CacheSet(p, c, k, b) == IF p = "gitlab_csv" THEN c ELSE [c EXCEPT ![k] = b]

\* ------------------------------------------------------------- rate governor
\* check_rate_limit before the call (GitHub, Azure): the value of the counter
\* after the check.  Azure resets its estimate after the pause.
check_rate_limit(p, rem) ==
  IF p = "azure" /\ rem < RATE_LIMIT_BUFFER(p) THEN RESET_ESTIMATE ELSE rem

PreCheckPauses(p, rem) ==
  p \in {"github", "github_csv", "azure"} /\ rem < RATE_LIMIT_BUFFER(p)

\* update_rate_limit (GitHub, Azure) / check_rate_limit(response) (GitLab):
\* the value of the counter after a response arrived.
update_rate_limit(p, rem, r) ==
  IF p = "azure" THEN rem - 1
  ELSE IF r.hdr # -1 THEN r.hdr ELSE rem

\* GitLab (optimized) sleeps after the response when the reported quota is
\* below the buffer and a reset time in the future is reported.
PostCheckPauses(p, r) ==
  p = "gitlab" /\ r.hdr # -1 /\ r.hdr < RATE_LIMIT_BUFFER(p) /\ r.reset = 1

\* ---------------------------------------------------------------- transport
HasPreCheck(p) == p \in {"github", "github_csv", "azure"}

IsRateLimited(p, r) ==
  \/ p \in {"github", "github_csv"} /\ r.status = 403
  \/ p = "azure" /\ r.status = 429

\* Variant of IsSuccess that does not look at the 'errors' field.
IsSuccess_IgnoringErrors(p, r) == r.status = 200

IsSuccess(p, r) == r.status = 200 /\ (GraphQL(p) => ~r.errors)

StartCall(k) ==
  /\ tpc' = "lookup"
  /\ tkey' = k
  /\ tlooked' = -1
  /\ tresp' = NoResp
  /\ tresult' = NoneBody
  /\ tsource' = "none"
  /\ posted' = FALSE
  /\ paused' = FALSE
  /\ attempts' = 0
  /\ UNCHANGED <<cache, remaining_requests>>

\* The caller has taken the returned value: the locals of the call are gone.
EndCall ==
  /\ tpc' = "idle"
  /\ tkey' = 0
  /\ tlooked' = -1
  /\ tresp' = NoResp
  /\ tresult' = NoneBody
  /\ tsource' = "none"
  /\ posted' = FALSE
  /\ paused' = FALSE
  /\ attempts' = 0
  /\ UNCHANGED <<cache, remaining_requests>>

\* cached = self.cache.get(...); if cached: return cached
CacheLookup ==
  /\ tpc = "lookup"
  /\ LET cached == CacheGet(platform, cache, tkey) IN
       IF cached # NoneBody
       THEN /\ tresult' = cached
            /\ tsource' = "cache"
            /\ tpc' = "ret"
            /\ UNCHANGED tlooked
       ELSE /\ tlooked' = tkey
            /\ tpc' = IF HasPreCheck(platform) THEN "check" ELSE "post"
            /\ UNCHANGED <<tresult, tsource>>
  /\ UNCHANGED <<tkey, tresp, posted, paused, cache, remaining_requests, attempts>>
  /\ UNCHANGED <<envVars, pVars>>

\* self.check_rate_limit()
CheckRateLimit ==
  /\ tpc = "check"
  /\ paused' = (paused \/ PreCheckPauses(platform, remaining_requests))
  /\ remaining_requests' = check_rate_limit(platform, remaining_requests)
  /\ tpc' = "post"
  /\ UNCHANGED <<tkey, tlooked, tresp, tresult, tsource, posted, cache, attempts>>
  /\ UNCHANGED <<envVars, pVars>>

\* response = self.session.post(...) / self.session.get(...)
Post ==
  /\ tpc = "post"
  /\ \E r \in Responses(platform, serverVer) : tresp' = r
  /\ posted' = TRUE
  /\ run_net' = TRUE
  /\ paused' = FALSE
  /\ attempts' = attempts + 1
  /\ tpc' = "handle"
  /\ UNCHANGED <<tkey, tlooked, tresult, tsource, cache, remaining_requests>>
  /\ UNCHANGED envVars
  /\ UNCHANGED <<ppc, cursor, has_more, batch_count, all_prs, failed_pr_count,
                 pr_data_cache, fetch_failed, run, first_prs>>

\* Variant of StackExhausted for a stack without limit.
StackExhausted_Never(n) == FALSE

\* return self.graphql_query(query, variables) / self.api_request(...) inside
\* try ... except Exception: every retry is one more nested call, and the
\* call that no longer fits on the interpreter's stack raises RecursionError,
\* which the enclosing handler turns into None.
StackExhausted(n) == n >= RecursionLimit

\* update_rate_limit(response) and the branch on response.status_code.
\* A rate-limit status sleeps 60 s and calls the transport again.
Respond ==
  /\ tpc = "handle"
  /\ IF tresp.status = 0
     THEN /\ tresult' = NoneBody
          /\ tsource' = "none"
          /\ tpc' = "ret"
          /\ UNCHANGED <<cache, remaining_requests, paused, tlooked>>
     ELSE /\ remaining_requests' = update_rate_limit(platform, remaining_requests, tresp)
          /\ IF IsSuccess(platform, tresp)
             THEN /\ cache' = CacheSet(platform, cache, tkey, Body(tkey, tresp.ver))
                  /\ tresult' = Body(tkey, tresp.ver)
                  /\ tsource' = "network"
                  /\ tpc' = "ret"
                  /\ paused' = (paused \/ PostCheckPauses(platform, tresp))
                  /\ UNCHANGED tlooked
             ELSE IF IsRateLimited(platform, tresp) /\ ~StackExhausted(attempts)
             THEN /\ paused' = TRUE
                  /\ tlooked' = -1
                  /\ tpc' = "lookup"
                  /\ UNCHANGED <<cache, tresult, tsource>>
             ELSE IF IsRateLimited(platform, tresp)
             THEN /\ paused' = TRUE
                  /\ tresult' = NoneBody
                  /\ tsource' = "none"
                  /\ tpc' = "ret"
                  /\ UNCHANGED <<cache, tlooked>>
             ELSE /\ tresult' = NoneBody
                  /\ tsource' = "none"
                  /\ tpc' = "ret"
                  /\ paused' = (paused \/ PostCheckPauses(platform, tresp))
                  /\ UNCHANGED <<cache, tlooked>>
  /\ tresp' = NoResp
  /\ UNCHANGED <<tkey, posted, attempts>>
  /\ UNCHANGED <<envVars, pVars>>

\* The PR data on the server changes (comments are added, PRs are merged).
ServerChange ==
  /\ serverVer < MaxVer
  /\ serverVer' = serverVer + 1
  /\ UNCHANGED <<platform, repo, branch, start_datetime, end_datetime, wVars, bVars, kVars, cVars, mVars, rVars>>
  /\ UNCHANGED <<tVars, pVars>>

\* ------------------------------------------------- transport under a caller
\* A caller that issues transport calls for arbitrary request keys.
DriverKeys == 0..1

InitialRemaining(p) ==
  IF p \in {"gitlab", "gitlab_csv"} THEN {GITLAB_INITIAL_REMAINING}
  ELSE IF p = "azure" THEN {INITIAL_REMAINING, RATE_LIMIT_BUFFER(p)}
  ELSE {INITIAL_REMAINING}

TransportIdle ==
  /\ tpc = "idle"
  /\ tkey = 0
  /\ tlooked = -1
  /\ tresp = NoResp
  /\ tresult = NoneBody
  /\ tsource = "none"
  /\ posted = FALSE
  /\ paused = FALSE
  /\ cache = [k \in Keys |-> NoneBody]
  /\ remaining_requests \in InitialRemaining(platform)
  /\ attempts = 0

PaginatorIdle ==
  /\ cursor = 0
  /\ has_more = TRUE
  /\ batch_count = 0
  /\ all_prs = <<>>
  /\ failed_pr_count = 0
  /\ pr_data_cache = [n \in 1..(MaxItems + 1) |-> 0]
  /\ fetch_failed = FALSE
  /\ run = 1
  /\ first_prs = <<>>
  /\ run_net = FALSE

\* No window has been computed.
WindowIdle ==
  /\ AUTOMATED_DATE = -1
  /\ WEEKS_BACK = 0
  /\ utc_offset = 0
  /\ now = 0
  /\ before_range = <<>>
  /\ after_range = <<>>

\* No response of Bitbucket's _get (status -1).
NoGetResponse == [status |-> -1, retry_after |-> -1]

\* _get is not running.
GetIdle ==
  /\ get_pc = "idle"
  /\ attempt = 0
  /\ response = NoGetResponse
  /\ slept = 0
  /\ get_result = "none"

\* No thread pool is running.
PoolIdle ==
  /\ task_pc = <<>>
  /\ task_call = <<>>
  /\ task_attempts = <<>>
  /\ detail_cache = {}
  /\ contributor_emails = {}

\* No item is being normalized.
MetricsIdle ==
  /\ pr_node = <<>>
  /\ pr_record = <<>>
  /\ pr_metrics = <<>>

\* No period result has been computed.
PeriodIdle ==
  /\ period_prs = <<>>
  /\ period_result = <<>>
  /\ first_result = <<>>

\* main() is not running.
MainIdle ==
  /\ settings_valid = FALSE
  /\ constructed = FALSE
  /\ prompted = FALSE

\* The absent value of a string argument (None).
NoString == [is_none |-> TRUE, text |-> <<>>]

\* No list of names is being parsed.
ParseIdle ==
  /\ name_string = NoString
  /\ names = <<>>

\* No archive at the target path.
NoArchive == [exists |-> FALSE, entries |-> <<>>]

\* create_results_zip is not running.
ZipIdle ==
  /\ csv_files = <<>>
  /\ fs = <<>>
  /\ archive = NoArchive
  /\ zip_result = "none"

\* No comparative result has been assembled.
DateIdle == reported_date = <<>>

ExceptPeriodIdle == MainIdle /\ ParseIdle /\ ZipIdle /\ DateIdle

ExceptMainIdle == PeriodIdle /\ ParseIdle /\ ZipIdle /\ DateIdle

ExceptParseIdle == PeriodIdle /\ MainIdle /\ ZipIdle /\ DateIdle

ExceptZipIdle == PeriodIdle /\ MainIdle /\ ParseIdle /\ DateIdle

ExceptDateIdle == PeriodIdle /\ MainIdle /\ ParseIdle /\ ZipIdle

ReportIdle == PeriodIdle /\ MainIdle /\ ParseIdle /\ ZipIdle /\ DateIdle

\* The result of a period that has not been computed.
NoMetrics == [prs |-> <<>>, total_prs |-> -2, failed_prs |-> -2]

\* calculate_comparative_metrics is not running.
CompareIdle ==
  /\ before_metrics = NoMetrics
  /\ after_metrics = NoMetrics
  /\ combined_metrics = [beforeAuto |-> NoMetrics, afterAuto |-> NoMetrics]

InitTransport ==
  /\ platform \in {"github", "azure", "gitlab"}
  /\ repo = <<>>
  /\ branch = ""
  /\ start_datetime = 0
  /\ end_datetime = 0
  /\ serverVer = 1
  /\ TransportIdle
  /\ ppc = "driver"
  /\ PaginatorIdle
  /\ GetIdle
  /\ PoolIdle
  /\ CompareIdle
  /\ MetricsIdle
  /\ ReportIdle
  /\ WindowIdle

DriverCall ==
  /\ ppc = "driver"
  /\ tpc = "idle"
  /\ batch_count < MaxCalls
  /\ batch_count' = batch_count + 1
  /\ \E k \in DriverKeys : StartCall(k)
  /\ UNCHANGED <<ppc, cursor, has_more, all_prs, failed_pr_count,
                 pr_data_cache, fetch_failed, run, first_prs, run_net>>
  /\ UNCHANGED envVars

DriverReturn ==
  /\ ppc = "driver"
  /\ tpc = "ret"
  /\ EndCall
  /\ UNCHANGED <<envVars, pVars>>

NextTransport ==
  \/ DriverCall
  \/ CacheLookup
  \/ CheckRateLimit
  \/ Post
  \/ Respond
  \/ DriverReturn
  \/ ServerChange

SpecTransport == InitTransport /\ [][NextTransport]_vars

\* A single transport call, followed to its return.
InitRetry ==
  /\ platform \in {"github", "azure"}
  /\ repo = <<>>
  /\ branch = ""
  /\ start_datetime = 0
  /\ end_datetime = 0
  /\ serverVer = 1
  /\ TransportIdle
  /\ ppc = "once"
  /\ PaginatorIdle
  /\ GetIdle
  /\ PoolIdle
  /\ CompareIdle
  /\ MetricsIdle
  /\ ReportIdle
  /\ WindowIdle

OnceCall ==
  /\ ppc = "once"
  /\ tpc = "idle"
  /\ \E k \in DriverKeys : StartCall(k)
  /\ ppc' = "await"
  /\ UNCHANGED <<cursor, has_more, batch_count, all_prs, failed_pr_count,
                 pr_data_cache, fetch_failed, run, first_prs, run_net>>
  /\ UNCHANGED envVars

OnceReturn ==
  /\ ppc = "await"
  /\ tpc = "ret"
  /\ ppc' = "returned"
  /\ EndCall
  /\ UNCHANGED <<cursor, has_more, batch_count, all_prs, failed_pr_count,
                 pr_data_cache, fetch_failed, run, first_prs, run_net>>
  /\ UNCHANGED envVars

NextRetry ==
  \/ OnceCall
  \/ CacheLookup
  \/ CheckRateLimit
  \/ Post
  \/ Respond
  \/ OnceReturn

\* The program is sequential: a call that can take its next step takes it.
SpecRetry == InitRetry /\ [][NextRetry]_vars /\ WF_vars(NextRetry)

\* ------------------------------------------------------- repository & pages
Times == 1..MaxTime

\* The window of the run: [start_datetime, end_datetime], both inclusive.
Windows == {<<2, 3>>}

\* kind "other": the PR targets another base branch; "bad": the record makes
\* _process_pr_graphql_data raise; "bad_email": a commit of the PR has a null
\* author or e-mail, which makes _extract_emails_from_pr raise.
Kinds(p) == IF p = "github_csv" THEN {"ok", "other", "bad", "bad_email"}
            ELSE IF p = "github" THEN {"ok", "other", "bad"}
            ELSE IF p = "azure" THEN {"ok", "bad"}
            ELSE {"ok", "other"}

BaseRef(item) == IF item.kind = "other" THEN "dev" ELSE "main"

\* Repositories listed newest first (orderBy CREATED_AT DESC).  The kind of a
\* PR outside the window, and the base branch when no filter is set, are
\* never read, so they are fixed to "ok".
Repos(p, b, w) ==
  UNION {{r \in [1..n -> [t : Times, kind : Kinds(p)]] :
            /\ \A i \in 1..n : i > 1 => r[i - 1].t >= r[i].t
            /\ \A i \in 1..n :
                  /\ (r[i].t < w[1] \/ r[i].t > w[2]) => r[i].kind = "ok"
                  /\ b = "" => r[i].kind # "other"} : n \in 0..MaxItems}

\* pullRequests(first: PageSize, after: c): the items after position c.
PageNodes(r, c) ==
  [j \in 1..(Min(c + PageSize, Len(r)) - Min(c, Len(r))) |-> c + j]

HasNextPage(r, c) == c + PageSize < Len(r)

\* pageInfo.endCursor (0 stands for null).
EndCursor(r, c) == IF c < Len(r) THEN Min(c + PageSize, Len(r)) ELSE 0

\* ------------------------------------------------------ GitHub paginator
\* Variant of SkipsItem that also skips an item created exactly at the end.
SkipsItem_Inclusive(t, end) == t >= end

\* if created_datetime > end_datetime: continue
SkipsItem(t, end) == t > end

\* Variant of StopsPagination without the early stop.
StopsPagination_Never(t, start) == FALSE

\* elif created_datetime < start_datetime: has_more = False; break
StopsPagination(t, start) == t < start

\* if self.branch and pr_data['baseRefName'] != self.branch: continue
BranchMismatch(b, item) == b # "" /\ BaseRef(item) # b

\* _process_pr_graphql_data: the cached PRData of that number if there is
\* one, else a new record built from the page (and cached).
process_pr_graphql_data(pdc, n, item, ver) ==
  IF pdc[n] # 0
  THEN [raised |-> FALSE, pr |-> [number |-> n, ver |-> pdc[n]], pdc |-> pdc]
  ELSE IF item.kind = "bad"
  THEN [raised |-> TRUE, pr |-> [number |-> n, ver |-> 0], pdc |-> pdc]
  ELSE [raised |-> FALSE, pr |-> [number |-> n, ver |-> ver],
        pdc |-> [pdc EXCEPT ![n] = ver]]

\* _extract_emails_from_pr raises on author_info.get / email.strip() when
\* the commit author or its e-mail is null.
extract_emails_raises(item) == item.kind = "bad_email"

\* One iteration of "for pr_data in pr_nodes" on the loop state st.
\* The CSV script catches a per-item exception and counts it; the basic
\* script has no handler, so the exception leaves the paginator.
ProcessNode(p, r, n, ver, st) ==
  LET item == r[n] IN
    IF SkipsItem(item.t, end_datetime) THEN st
    ELSE IF StopsPagination(item.t, start_datetime)
    THEN [st EXCEPT !.halt = TRUE]
    ELSE IF BranchMismatch(branch, item) THEN st
    ELSE LET res == process_pr_graphql_data(st.pdc, n, item, ver) IN
      IF res.raised
      THEN IF p = "github_csv"
           THEN [st EXCEPT !.failed = @ + 1]
           ELSE [st EXCEPT !.raised = TRUE]
      ELSE LET st1 == [st EXCEPT !.prs = Append(@, res.pr), !.pdc = res.pdc] IN
        IF p = "github_csv" /\ extract_emails_raises(item)
        THEN [st1 EXCEPT !.failed = @ + 1]
        ELSE st1

RECURSIVE ProcessNodes(_, _, _, _, _)
ProcessNodes(p, r, nodes, ver, st) ==
  IF nodes = <<>> \/ st.halt \/ st.raised THEN st
  ELSE ProcessNodes(p, r, Tail(nodes), ver, ProcessNode(p, r, Head(nodes), ver, st))

GitHub == {"github", "github_csv"}

InitGitHub ==
  /\ platform \in GitHub
  /\ branch \in {"", "main"}
  /\ \E w \in Windows :
       /\ start_datetime = w[1]
       /\ end_datetime = w[2]
       /\ repo \in Repos(platform, branch, w)
  /\ serverVer = 1
  /\ TransportIdle
  /\ ppc = "loop"
  /\ PaginatorIdle
  /\ GetIdle
  /\ PoolIdle
  /\ CompareIdle
  /\ MetricsIdle
  /\ ReportIdle
  /\ WindowIdle

\* while has_more: batch_count += 1; fetch_prs_batch_graphql(..., cursor)
FetchBatch ==
  /\ platform \in GitHub
  /\ ppc = "loop"
  /\ tpc = "idle"
  /\ batch_count' = batch_count + 1
  /\ StartCall(cursor)
  /\ ppc' = "await"
  /\ UNCHANGED <<cursor, has_more, all_prs, failed_pr_count, pr_data_cache,
                 fetch_failed, run, first_prs, run_net>>
  /\ UNCHANGED envVars

\* The rest of the loop body once fetch_prs_batch_graphql has returned.
ProcessBatch ==
  /\ platform \in GitHub
  /\ ppc = "await"
  /\ tpc = "ret"
  /\ EndCall
  /\ IF tresult = NoneBody
     THEN /\ fetch_failed' = TRUE
          /\ ppc' = "done"
          /\ UNCHANGED <<cursor, has_more, all_prs, failed_pr_count, pr_data_cache>>
     ELSE LET st == ProcessNodes(platform, repo, PageNodes(repo, tresult.key),
                                 tresult.ver,
                                 [prs |-> all_prs, failed |-> failed_pr_count,
                                  pdc |-> pr_data_cache, halt |-> FALSE,
                                  raised |-> FALSE])
              more == has_more /\ ~st.halt /\ HasNextPage(repo, tresult.key)
          IN /\ all_prs' = st.prs
             /\ failed_pr_count' = st.failed
             /\ pr_data_cache' = st.pdc
             /\ IF st.raised
                THEN /\ ppc' = "raised"
                     /\ UNCHANGED <<cursor, has_more>>
                ELSE /\ cursor' = EndCursor(repo, tresult.key)
                     /\ has_more' = more
                     /\ ppc' = IF more THEN "loop" ELSE "done"
             /\ UNCHANGED fetch_failed
  /\ UNCHANGED <<batch_count, run, first_prs, run_net>>
  /\ UNCHANGED envVars

\* The caller invokes get_pull_requests_optimized again for the same window
\* on the same calculator (same cache, same pr_data_cache).
Rerun ==
  /\ platform = "github"
  /\ ppc = "done"
  /\ run = 1
  /\ run' = 2
  /\ first_prs' = all_prs
  /\ all_prs' = <<>>
  /\ cursor' = 0
  /\ has_more' = TRUE
  /\ batch_count' = 0
  /\ failed_pr_count' = 0
  /\ run_net' = FALSE
  /\ ppc' = "loop"
  /\ UNCHANGED <<pr_data_cache, fetch_failed>>
  /\ UNCHANGED <<envVars, tVars>>

\* calculate_metrics_for_period_optimized: the tallies of the period result
\* (-1 stands for a key that the result does not have).
PeriodTallies(prs, failed) ==
  IF prs = <<>>
  THEN [total_prs |-> -1, successfully_processed_prs |-> 0, failed_prs |-> failed]
  ELSE [total_prs |-> Len(prs), successfully_processed_prs |-> Len(prs),
        failed_prs |-> failed]

NextGitHub ==
  \/ FetchBatch
  \/ CacheLookup
  \/ CheckRateLimit
  \/ Post
  \/ Respond
  \/ ProcessBatch
  \/ Rerun
  \/ ServerChange

Spec == InitGitHub /\ [][NextGitHub]_vars

\* ------------------------------------------------ Azure DevOps paginator
\* GET pullrequests?$top=PageSize&$skip=k: the raw page of the server.
RawPage(r, k) == PageNodes(r, k)

RECURSIVE SelectSeq2(_, _)
\* The elements of a sequence of positions whose item lies in the window.
SelectSeq2(r, nodes) ==
  IF nodes = <<>> THEN <<>>
  ELSE LET rest == SelectSeq2(r, Tail(nodes))
           n == Head(nodes)
       IN IF start_datetime <= r[n].t /\ r[n].t <= end_datetime
          THEN <<n>> \o rest ELSE rest

\* The page as the server sent it.
fetch_prs_batch_Unfiltered(r, k) == RawPage(r, k)

\* fetch_prs_batch: the page after the client-side date filter
\* (result['value'] = filtered_prs).
fetch_prs_batch(r, k) == SelectSeq2(r, RawPage(r, k))

\* One api_request that got a response: check_rate_limit, then
\* update_rate_limit.
RECURSIVE DetailCalls(_, _)
DetailCalls(rem, d) ==
  IF d = 0 THEN rem
  ELSE DetailCalls(update_rate_limit("azure", check_rate_limit("azure", rem), NoResp), d - 1)

\* All orders in which the futures of a batch can complete.
Perms(S) ==
  {f \in [1..Cardinality(S) -> S] :
     \A a \in 1..Cardinality(S) : \A b \in 1..Cardinality(S) :
        a # b => f[a] # f[b]}

Range(f) == {f[x] : x \in DOMAIN f}

\* process_pr_data returns a PRData, or None when it raised.
process_pr_data(n, item, ver) ==
  IF item.kind = "bad" THEN [number |-> -1, ver |-> 0]
  ELSE [number |-> n, ver |-> ver]

\* if pr_data: ... else: failed_pr_count += 1
IsPRData(x) == x.number # -1

InitAzure ==
  /\ platform = "azure"
  /\ branch = ""
  /\ \E w \in Windows :
       /\ start_datetime = w[1]
       /\ end_datetime = w[2]
       /\ repo \in Repos(platform, branch, w)
  /\ serverVer = 1
  /\ TransportIdle
  /\ ppc = "loop"
  /\ PaginatorIdle
  /\ GetIdle
  /\ PoolIdle
  /\ CompareIdle
  /\ MetricsIdle
  /\ ReportIdle
  /\ WindowIdle

\* while has_more: batch_count += 1; fetch_prs_batch(..., skip)
AzureFetchBatch ==
  /\ platform = "azure"
  /\ ppc = "loop"
  /\ tpc = "idle"
  /\ batch_count' = batch_count + 1
  /\ StartCall(cursor)
  /\ ppc' = "await"
  /\ UNCHANGED <<cursor, has_more, all_prs, failed_pr_count, pr_data_cache,
                 fetch_failed, run, first_prs, run_net>>
  /\ UNCHANGED envVars

\* The rest of the loop body: the batch is processed by the thread pool
\* (three detail requests per PR) and collected in completion order.
AzureProcessBatch ==
  /\ platform = "azure"
  /\ ppc = "await"
  /\ tpc = "ret"
  /\ tpc' = "idle"
  /\ tkey' = 0
  /\ tlooked' = -1
  /\ tresp' = NoResp
  /\ tresult' = NoneBody
  /\ tsource' = "none"
  /\ posted' = FALSE
  /\ paused' = FALSE
  /\ attempts' = 0
  /\ UNCHANGED cache
  /\ IF tresult = NoneBody
     THEN /\ fetch_failed' = TRUE
          /\ ppc' = "done"
          /\ UNCHANGED <<cursor, has_more, all_prs, failed_pr_count, remaining_requests>>
     ELSE LET pr_batch == fetch_prs_batch(repo, tresult.key) IN
       IF pr_batch = <<>>
       THEN /\ ppc' = "done"
            /\ UNCHANGED <<cursor, has_more, all_prs, failed_pr_count,
                           fetch_failed, remaining_requests>>
       ELSE LET more == Len(pr_batch) = PageSize
            IN /\ \E order \in Perms(Range(pr_batch)) :
                    LET results == [j \in 1..Len(pr_batch) |->
                          process_pr_data(order[j], repo[order[j]], tresult.ver)]
                        done == SelectSeq(results, IsPRData)
                    IN /\ all_prs' = all_prs \o done
                       /\ failed_pr_count' =
                            failed_pr_count + (Len(results) - Len(done))
               /\ \E d \in {0, 3 * Len(pr_batch)} :
                    remaining_requests' = DetailCalls(remaining_requests, d)
               /\ cursor' = cursor + Len(pr_batch)
               /\ has_more' = more
               /\ ppc' = IF more THEN "loop" ELSE "done"
               /\ UNCHANGED fetch_failed
  /\ UNCHANGED <<batch_count, pr_data_cache, run, first_prs, run_net>>
  /\ UNCHANGED envVars

NextAzure ==
  \/ AzureFetchBatch
  \/ CacheLookup
  \/ CheckRateLimit
  \/ Post
  \/ Respond
  \/ AzureProcessBatch
  \/ ServerChange

SpecAzure == InitAzure /\ [][NextAzure]_vars

\* ------------------------------------------- GitLab and Bitbucket paginators
GitLab == {"gitlab", "gitlab_csv"}

\* fetch_mrs_batch_graphql / get_pull_requests: the items of a page that lie
\* in the window and pass the branch filter.
RECURSIVE FilterByDateAndBranch(_, _)
FilterByDateAndBranch(r, nodes) ==
  IF nodes = <<>> THEN <<>>
  ELSE LET rest == FilterByDateAndBranch(r, Tail(nodes))
           n == Head(nodes)
       IN IF /\ start_datetime <= r[n].t
             /\ r[n].t <= end_datetime
             /\ ~BranchMismatch(branch, r[n])
          THEN <<n>> \o rest ELSE rest

InitList ==
  /\ platform \in GitLab \cup {"bitbucket"}
  /\ branch \in {"", "main"}
  /\ \E w \in Windows :
       /\ start_datetime = w[1]
       /\ end_datetime = w[2]
       /\ repo \in Repos(platform, branch, w)
  /\ serverVer = 1
  /\ TransportIdle
  /\ ppc = "loop"
  /\ PaginatorIdle
  /\ GetIdle
  /\ PoolIdle
  /\ CompareIdle
  /\ MetricsIdle
  /\ ReportIdle
  /\ WindowIdle

\* while True: fetch_mrs_batch_graphql(start_date, end_date, after_cursor)
GitLabFetchBatch ==
  /\ platform \in GitLab
  /\ ppc = "loop"
  /\ tpc = "idle"
  /\ batch_count' = batch_count + 1
  /\ StartCall(cursor)
  /\ ppc' = "await"
  /\ UNCHANGED <<cursor, has_more, all_prs, failed_pr_count, pr_data_cache,
                 fetch_failed, run, first_prs, run_net>>
  /\ UNCHANGED envVars

\* all_mrs.extend(mrs); if not has_next or not end_cursor: break
GitLabProcessBatch ==
  /\ platform \in GitLab
  /\ ppc = "await"
  /\ tpc = "ret"
  /\ EndCall
  /\ IF tresult = NoneBody
     THEN /\ fetch_failed' = TRUE
          /\ ppc' = "done"
          /\ UNCHANGED <<cursor, has_more, all_prs>>
     ELSE LET mrs == FilterByDateAndBranch(repo, PageNodes(repo, tresult.key))
              has_next == HasNextPage(repo, tresult.key)
              end_cursor == EndCursor(repo, tresult.key)
              more == has_next /\ end_cursor # 0
          IN /\ all_prs' = all_prs \o
                   [j \in 1..Len(mrs) |-> [number |-> mrs[j], ver |-> tresult.ver]]
             /\ has_more' = more
             /\ cursor' = IF more THEN end_cursor ELSE cursor
             /\ ppc' = IF more THEN "loop" ELSE "done"
             /\ UNCHANGED fetch_failed
  /\ UNCHANGED <<batch_count, failed_pr_count, pr_data_cache, run, first_prs, run_net>>
  /\ UNCHANGED envVars

\* Bitbucket _get_all_pages: one iteration (params['page'] = page; _get).
\* _get either delivers the page or gives up (None).  While the loop runs,
\* all_prs holds all_items; get_pull_requests filters them when it ends.
BitbucketGetPage ==
  /\ platform = "bitbucket"
  /\ ppc = "loop"
  /\ batch_count' = batch_count + 1
  /\ run_net' = TRUE
  /\ \E ok \in BOOLEAN :
       LET items == PageNodes(repo, cursor)
           has_next == HasNextPage(repo, cursor)
           collected == IF ok /\ items # <<>>
                        THEN all_prs \o [j \in 1..Len(items) |->
                                           [number |-> items[j], ver |-> serverVer]]
                        ELSE all_prs
           more == ok /\ items # <<>> /\ has_next
           numbers == [j \in 1..Len(collected) |-> collected[j].number]
           kept == FilterByDateAndBranch(repo, numbers)
       IN /\ fetch_failed' = (fetch_failed \/ ~ok)
          /\ has_more' = more
          /\ cursor' = IF more THEN cursor + PageSize ELSE cursor
          /\ all_prs' = IF more THEN collected
                        ELSE [j \in 1..Len(kept) |->
                                CHOOSE x \in Range(collected) : x.number = kept[j]]
          /\ ppc' = IF more THEN "loop" ELSE "done"
  /\ UNCHANGED <<failed_pr_count, pr_data_cache, run, first_prs>>
  /\ UNCHANGED <<envVars, tVars>>

NextList ==
  \/ GitLabFetchBatch
  \/ CacheLookup
  \/ Post
  \/ Respond
  \/ GitLabProcessBatch
  \/ BitbucketGetPage
  \/ ServerChange

SpecList == InitList /\ [][NextList]_vars

\* -------------------------------------------------------- analysis windows
\* Instants are whole hours counted from 2024-01-01T00:00:00Z.
HoursPerDay == 24
HoursPerWeek == 7 * HoursPerDay
MonthLen == <<31, 29, 31, 30, 31, 30, 31, 31, 30, 31, 30, 31>>

RECURSIVE MonthDay(_, _)
\* Month and day of the month of the d-th day (from 0) counted from month m.
MonthDay(d, m) ==
  IF d < MonthLen[m] THEN <<m, d + 1>> ELSE MonthDay(d - MonthLen[m], m + 1)

\* strftime('%Y-%m-%dT%H:%M:%SZ') of a wall-clock value: year, month, day,
\* hour (minutes and seconds are zero); the 'Z' is a literal.
strftime(wall) ==
  LET md == MonthDay(wall \div HoursPerDay, 1)
  IN <<2024, md[1], md[2], wall % HoursPerDay>>

\* A datetime: its wall-clock reading and whether it carries tzinfo (the
\* parsed 'Z' gives tzinfo UTC).
Datetime(wall, aware) == [wall |-> wall, aware |-> aware]

\* dt - timedelta / dt + timedelta
Shift(dt, hours) == Datetime(dt.wall + hours, dt.aware)

\* _parse_automation_date / _parse_iso_or_now: datetime.now() is naive
\* local time.
parse_automation_date(a, clock, off) ==
  IF a = -1 THEN Datetime(clock + off, FALSE) ELSE Datetime(a, TRUE)

\* _format_datetime: the GitHub scripts convert an aware datetime with
\* astimezone(), i.e. to local time; Bitbucket calls strftime directly.
format_datetime(p, dt, off) ==
  IF p \in {"github", "github_csv"} /\ dt.aware
  THEN strftime(dt.wall + off)
  ELSE strftime(dt.wall)

calculate_date_range(p, weeks_back, end_date, off) ==
  <<format_datetime(p, Shift(end_date, -(weeks_back * HoursPerWeek)), off),
    format_datetime(p, end_date, off)>>

calculate_before_auto_date_range(p, a, weeks_back, clock, off) ==
  LET automation_date == parse_automation_date(a, clock, off)
      end_date == Shift(automation_date, -HoursPerWeek)
  IN calculate_date_range(p, weeks_back, end_date, off)

calculate_after_auto_date_range(p, a, weeks_back, clock, off) ==
  LET automation_date == parse_automation_date(a, clock, off)
      end_date == Shift(automation_date, weeks_back * HoursPerWeek)
  IN <<format_datetime(p, automation_date, off), format_datetime(p, end_date, off)>>

\* 2024-06-15T00:00:00Z, 2024-06-15T13:00:00Z, 2024-07-20T00:00:00Z
June15 == (31 + 29 + 31 + 30 + 31 + 14) * HoursPerDay
AutomationDates == {June15, June15 + 13, (31 + 29 + 31 + 30 + 31 + 30 + 19) * HoursPerDay}
\* New York (summer), UTC, Tokyo
UtcOffsets == {-4, 0, 9}

\* isoformat() of an aware datetime: the wall-clock reading followed by the
\* UTC offset.
isoformat(wall, off) == Append(strftime(wall), off)

RECURSIVE DaysBefore(_)
\* The days of 2024 before month m.
DaysBefore(m) == IF m = 1 THEN 0 ELSE DaysBefore(m - 1) + MonthLen[m - 1]

\* datetime.fromisoformat(s.replace('Z', '+00:00')): the instant a timestamp
\* names, in hours of 2024 (UTC); a timestamp without offset ends in 'Z'.
fromisoformat(ts) ==
  (DaysBefore(ts[2]) + ts[3] - 1) * HoursPerDay + ts[4]
    - (IF Len(ts) = 5 THEN ts[5] ELSE 0)

\* The windows of process_single_project (GitLab CSV): auto_dt is the parsed
\* AUTOMATED_DATE or one reading of the clock in the local time zone.
process_single_project_ranges(a, weeks_back, clock, off) ==
  LET wall == IF a # -1 THEN a ELSE clock + off
      o == IF a # -1 THEN 0 ELSE off
  IN [before |-> <<isoformat(wall - weeks_back * HoursPerWeek, o),
                   isoformat(wall, o)>>,
      after |-> <<isoformat(wall, o),
                  isoformat(wall + weeks_back * HoursPerWeek, o)>>]

InitWindow ==
  /\ platform \in {"github", "github_csv", "bitbucket", "gitlab_csv"}
  /\ repo = <<>>
  /\ branch = ""
  /\ start_datetime = 0
  /\ end_datetime = 0
  /\ serverVer = 1
  /\ TransportIdle
  /\ ppc = "window"
  /\ PaginatorIdle
  /\ GetIdle
  /\ PoolIdle
  /\ CompareIdle
  /\ MetricsIdle
  /\ ReportIdle
  /\ AUTOMATED_DATE \in AutomationDates \cup {-1}
  /\ WEEKS_BACK \in 1..MaxWeeks
  /\ utc_offset \in UtcOffsets
  /\ now = June15 + HoursPerWeek
  /\ before_range = <<>>
  /\ after_range = <<>>

CalcBefore ==
  /\ ppc = "window"
  /\ platform # "gitlab_csv"
  /\ before_range = <<>>
  /\ before_range' = calculate_before_auto_date_range(
                        platform, AUTOMATED_DATE, WEEKS_BACK, now, utc_offset)
  /\ UNCHANGED <<AUTOMATED_DATE, WEEKS_BACK, utc_offset, now, after_range>>
  /\ UNCHANGED <<platform, repo, branch, start_datetime, end_datetime, serverVer, bVars, kVars, cVars, mVars, rVars>>
  /\ UNCHANGED <<tVars, pVars>>

CalcAfter ==
  /\ ppc = "window"
  /\ platform # "gitlab_csv"
  /\ before_range # <<>>
  /\ after_range = <<>>
  /\ after_range' = calculate_after_auto_date_range(
                       platform, AUTOMATED_DATE, WEEKS_BACK, now, utc_offset)
  /\ UNCHANGED <<AUTOMATED_DATE, WEEKS_BACK, utc_offset, now, before_range>>
  /\ UNCHANGED <<platform, repo, branch, start_datetime, end_datetime, serverVer, bVars, kVars, cVars, mVars, rVars>>
  /\ UNCHANGED <<tVars, pVars>>

\* Time passes between two readings of the clock.
Tick ==
  /\ ppc = "window"
  /\ now < June15 + HoursPerWeek + MaxTicks
  /\ now' = now + 1
  /\ UNCHANGED <<AUTOMATED_DATE, WEEKS_BACK, utc_offset, before_range, after_range>>
  /\ UNCHANGED <<platform, repo, branch, start_datetime, end_datetime, serverVer, bVars, kVars, cVars, mVars, rVars>>
  /\ UNCHANGED <<tVars, pVars>>

\* "combined_metrics['automation_date'] = ..." of
\* calculate_comparative_metrics, after both periods: the configured string,
\* or the clock read once more and printed as local time with a literal 'Z'.
ReportDate ==
  /\ ppc = "window"
  /\ platform \in GitHub
  /\ after_range # <<>>
  /\ reported_date = <<>>
  /\ reported_date' = IF AUTOMATED_DATE # -1 THEN strftime(AUTOMATED_DATE)
                      ELSE strftime(now + utc_offset)
  /\ UNCHANGED <<wVars, exceptDate>>
  /\ UNCHANGED <<platform, repo, branch, start_datetime, end_datetime, serverVer, bVars, kVars, cVars, mVars>>
  /\ UNCHANGED <<tVars, pVars>>

\* "Calculate date ranges" of process_single_project.
ProjectRanges ==
  /\ ppc = "window"
  /\ platform = "gitlab_csv"
  /\ before_range = <<>>
  /\ LET r == process_single_project_ranges(AUTOMATED_DATE, WEEKS_BACK, now,
                                            utc_offset)
     IN /\ before_range' = r.before
        /\ after_range' = r.after
  /\ UNCHANGED <<AUTOMATED_DATE, WEEKS_BACK, utc_offset, now>>
  /\ UNCHANGED <<platform, repo, branch, start_datetime, end_datetime, serverVer, bVars, kVars, cVars, mVars, rVars>>
  /\ UNCHANGED <<tVars, pVars>>

NextWindow ==
  \/ CalcBefore
  \/ CalcAfter
  \/ Tick
  \/ ProjectRanges
  \/ ReportDate

SpecWindow == InitWindow /\ [][NextWindow]_vars

\* ------------------------------------------------------------ Bitbucket _get
\* Responses of session.get: status 0 stands for a RequestException;
\* retry_after is the Retry-After header of a 429 (-1 = absent).
GetResponses ==
  {x \in [status : {0, 200, 404, 429, 500, 503}, retry_after : {-1, 30, 90}] :
     x.status # 429 => x.retry_after = -1}

\* elif response.status_code in [500, 502, 503, 504]
IsTransient(status) == status \in {500, 502, 503, 504}

\* wait_time = max(int(headers.get('Retry-After', '60')), 60)
RateLimitWait(r) ==
  LET retry_after == IF r.retry_after = -1 THEN DEFAULT_RETRY_AFTER
                     ELSE r.retry_after
  IN IF retry_after > MIN_RATE_LIMIT_WAIT THEN retry_after
     ELSE MIN_RATE_LIMIT_WAIT

RECURSIVE Pow2(_)
\* backoff = 2 ** attempt
Pow2(n) == IF n = 0 THEN 1 ELSE 2 * Pow2(n - 1)

InitGet ==
  /\ platform = "bitbucket"
  /\ repo = <<>>
  /\ branch = ""
  /\ start_datetime = 0
  /\ end_datetime = 0
  /\ serverVer = 1
  /\ TransportIdle
  /\ ppc = "get"
  /\ PaginatorIdle
  /\ WindowIdle
  /\ GetIdle
  /\ PoolIdle
  /\ CompareIdle
  /\ MetricsIdle
  /\ ReportIdle

\* resp = self._get(url, params): the caller enters _get.
GetCall ==
  /\ ppc = "get"
  /\ get_pc = "idle"
  /\ batch_count < MaxCalls
  /\ batch_count' = batch_count + 1
  /\ get_pc' = "send"
  /\ attempt' = 0
  /\ response' = NoGetResponse
  /\ slept' = 0
  /\ get_result' = "none"
  /\ UNCHANGED <<ppc, cursor, has_more, all_prs, failed_pr_count,
                 pr_data_cache, fetch_failed, run, first_prs, run_net>>
  /\ UNCHANGED <<platform, repo, branch, start_datetime, end_datetime, serverVer, wVars, kVars, cVars, mVars, rVars>>
  /\ UNCHANGED tVars

\* _get has returned; the caller records whether it got a response.
GetReturn ==
  /\ ppc = "get"
  /\ get_pc = "done"
  /\ fetch_failed' = (fetch_failed \/ get_result = "none")
  /\ get_pc' = "idle"
  /\ UNCHANGED <<attempt, response, slept, get_result>>
  /\ UNCHANGED <<ppc, cursor, has_more, batch_count, all_prs, failed_pr_count,
                 pr_data_cache, run, first_prs, run_net>>
  /\ UNCHANGED <<platform, repo, branch, start_datetime, end_datetime, serverVer, wVars, kVars, cVars, mVars, rVars>>
  /\ UNCHANGED tVars

\* response = self.session.get(url, params=params, timeout=30)
GetSend ==
  /\ get_pc = "send"
  /\ \E r \in GetResponses : response' = r
  /\ get_pc' = "handle"
  /\ UNCHANGED <<attempt, slept, get_result>>
  /\ UNCHANGED <<platform, repo, branch, start_datetime, end_datetime, serverVer, wVars, kVars, cVars, mVars, rVars>>
  /\ UNCHANGED <<tVars, pVars>>

\* One pass through the body of "for attempt in range(max_retries)" after
\* the response (or the exception) arrived.
GetHandle ==
  /\ get_pc = "handle"
  /\ LET again == attempt + 1 < MAX_RETRIES IN
     IF response.status = 200
     THEN /\ get_result' = "response"
          /\ get_pc' = "done"
          /\ UNCHANGED <<attempt, slept>>
     ELSE IF IsTransient(response.status)
     THEN /\ slept' = slept + (IF response.status = 429
                                THEN RateLimitWait(response)
                                ELSE Pow2(attempt))
          /\ attempt' = attempt + 1
          /\ get_pc' = IF again THEN "send" ELSE "done"
          /\ UNCHANGED get_result
     ELSE IF response.status = 0
     THEN /\ slept' = slept + Pow2(attempt)
          /\ attempt' = attempt + 1
          /\ get_pc' = IF again THEN "send" ELSE "done"
          /\ UNCHANGED get_result
     ELSE /\ get_pc' = "done"
          /\ UNCHANGED <<attempt, slept, get_result>>
  /\ UNCHANGED response
  /\ UNCHANGED <<platform, repo, branch, start_datetime, end_datetime, serverVer, wVars, kVars, cVars, mVars, rVars>>
  /\ UNCHANGED <<tVars, pVars>>

NextGet ==
  \/ GetCall
  \/ GetSend
  \/ GetHandle
  \/ GetReturn

SpecGet == InitGet /\ [][NextGet]_vars

\* ------------------------------------------------------ Azure thread pool
\* The batch of a page is processed by ThreadPoolExecutor(max_workers =
\* MAX_PARALLEL_REQUESTS): one task per PR runs process_pr_data, which makes
\* the detail requests of fetch_pr_details one after the other through
\* api_request.  Here repo is the batch; a task is identified by the position
\* of its PR.  A "with lock:" block is one step: blocks under one lock
\* exclude each other.
DetailEndpoints == <<"commits", "threads", "reviewers">>

Tasks == 1..Len(repo)

\* Tasks that occupy a worker thread.
Running == {t \in Tasks : task_pc[t] \notin {"queued", "finish", "done"}}

\* Tasks with a request on the wire.
InFlight == {t \in Tasks : task_pc[t] = "inflight"}

\* Statuses of the detail responses; 0 stands for session.get raising.  The
\* retry after a 429 is the subject of SpecRetry and is not answered here.
DetailStatuses == {0, 200, 500}

\* The lock a worker holds while it executes the statement at a position:
\* ResponseCache.get and .set run under self.lock, check_rate_limit and
\* update_rate_limit under rate_limit_lock, collect_contributor_emails under
\* none.
LockOf(pc) ==
  CASE pc \in {"lookup", "store"} -> "cache"
    [] pc \in {"check", "inflight"} -> "rate"
    [] OTHER -> "none"

InitPool ==
  /\ platform = "azure"
  /\ branch = ""
  /\ \E w \in Windows :
       /\ start_datetime = w[1]
       /\ end_datetime = w[2]
       /\ \E n \in 1..(PoolSize + 1), k \in {"ok", "bad"} :
            repo = [i \in 1..n |-> [t |-> w[1], kind |-> IF i = n THEN k ELSE "ok"]]
  /\ serverVer = 1
  /\ TransportIdle
  /\ ppc = "pool"
  /\ PaginatorIdle
  /\ WindowIdle
  /\ GetIdle
  /\ CompareIdle
  /\ MetricsIdle
  /\ ReportIdle
  /\ task_pc = [t \in 1..Len(repo) |-> "queued"]
  /\ task_call = [t \in 1..Len(repo) |-> 1]
  /\ task_attempts = [t \in 1..Len(repo) |-> 0]
  /\ detail_cache = {}
  /\ contributor_emails = {}

\* What a pool step leaves alone besides the variables it names.
PoolFrame ==
  /\ UNCHANGED <<platform, repo, branch, start_datetime, end_datetime, serverVer,
                 wVars, bVars, cVars, mVars, rVars>>
  /\ UNCHANGED <<tpc, tkey, tlooked, tresp, tresult, tsource, posted, paused,
                 cache, attempts>>
  /\ UNCHANGED <<ppc, cursor, has_more, batch_count, pr_data_cache,
                 fetch_failed, run, first_prs, run_net>>

\* The position of task t after its current api_request returned.
AfterCall(t) ==
  /\ task_attempts' = [task_attempts EXCEPT ![t] = 0]
  /\ IF task_call[t] < Len(DetailEndpoints)
     THEN /\ task_call' = [task_call EXCEPT ![t] = @ + 1]
          /\ task_pc' = [task_pc EXCEPT ![t] = "lookup"]
     ELSE /\ task_call' = task_call
          /\ task_pc' = [task_pc EXCEPT ![t] =
                           IF repo[t].kind = "bad" THEN "finish" ELSE "emails"]

HasFreeWorker_Always == TRUE

\* ThreadPoolExecutor(max_workers=MAX_PARALLEL_REQUESTS): a submitted task
\* waits in the queue until one of the worker threads is idle.
HasFreeWorker == Cardinality(Running) < PoolSize

\* A free worker thread takes the next submitted task.
PoolStart(t) ==
  /\ task_pc[t] = "queued"
  /\ \A u \in Tasks : u < t => task_pc[u] # "queued"
  /\ HasFreeWorker
  /\ task_pc' = [task_pc EXCEPT ![t] = "lookup"]
  /\ UNCHANGED <<task_call, task_attempts, detail_cache, contributor_emails,
                 remaining_requests, all_prs, failed_pr_count>>
  /\ PoolFrame

\* cached = self.cache.get('api', endpoint, params) (with self.lock);
\* if cached: return cached
ApiLookup(t) ==
  /\ task_pc[t] = "lookup"
  /\ IF <<t, task_call[t]>> \in detail_cache
     THEN AfterCall(t)
     ELSE /\ task_pc' = [task_pc EXCEPT ![t] = "check"]
          /\ UNCHANGED <<task_call, task_attempts>>
  /\ UNCHANGED <<detail_cache, contributor_emails,
                 remaining_requests, all_prs, failed_pr_count>>
  /\ PoolFrame

\* self.check_rate_limit() (with rate_limit_lock), then session.get is called.
ApiCheck(t) ==
  /\ task_pc[t] = "check"
  /\ remaining_requests' = check_rate_limit(platform, remaining_requests)
  /\ task_pc' = [task_pc EXCEPT ![t] = "inflight"]
  /\ task_attempts' = [task_attempts EXCEPT ![t] = @ + 1]
  /\ UNCHANGED <<task_call, detail_cache, contributor_emails, all_prs, failed_pr_count>>
  /\ PoolFrame

\* session.get returns or raises; self.update_rate_limit(response) (with
\* rate_limit_lock), then the branch on response.status_code.
ApiResponse(t) ==
  /\ task_pc[t] = "inflight"
  /\ \E status \in DetailStatuses :
       IF status = 0
       THEN /\ AfterCall(t)
            /\ UNCHANGED remaining_requests
       ELSE /\ remaining_requests' =
                 update_rate_limit(platform, remaining_requests, NoResp)
            /\ IF status = 200
               THEN /\ task_pc' = [task_pc EXCEPT ![t] = "store"]
                    /\ UNCHANGED <<task_call, task_attempts>>
               ELSE IF status = 429 /\ ~StackExhausted(task_attempts[t])
               THEN /\ task_pc' = [task_pc EXCEPT ![t] = "lookup"]
                    /\ UNCHANGED <<task_call, task_attempts>>
               ELSE AfterCall(t)
  /\ UNCHANGED <<detail_cache, contributor_emails, all_prs, failed_pr_count>>
  /\ PoolFrame

\* self.cache.set(result, 'api', endpoint, params) (with self.lock)
ApiStore(t) ==
  /\ task_pc[t] = "store"
  /\ detail_cache' = detail_cache \cup {<<t, task_call[t]>>}
  /\ AfterCall(t)
  /\ UNCHANGED <<contributor_emails, remaining_requests, all_prs, failed_pr_count>>
  /\ PoolFrame

\* self.collect_contributor_emails(pr_raw): self.contributor_emails[username]
\* .add(email), outside any lock; then return PRData(...)
CollectEmails(t) ==
  /\ task_pc[t] = "emails"
  /\ contributor_emails' = contributor_emails \cup {t}
  /\ task_pc' = [task_pc EXCEPT ![t] = "finish"]
  /\ UNCHANGED <<task_call, task_attempts, detail_cache,
                 remaining_requests, all_prs, failed_pr_count>>
  /\ PoolFrame

\* for future in as_completed(future_to_pr): the main thread takes the
\* result of a completed task.
CollectResult(t) ==
  /\ task_pc[t] = "finish"
  /\ LET pr_data == process_pr_data(t, repo[t], serverVer) IN
       IF IsPRData(pr_data)
       THEN /\ all_prs' = Append(all_prs, pr_data)
            /\ UNCHANGED failed_pr_count
       ELSE /\ failed_pr_count' = failed_pr_count + 1
            /\ UNCHANGED all_prs
  /\ task_pc' = [task_pc EXCEPT ![t] = "done"]
  /\ UNCHANGED <<task_call, task_attempts, detail_cache,
                 contributor_emails, remaining_requests>>
  /\ PoolFrame

NextPool ==
  \/ \E t \in Tasks : PoolStart(t)
  \/ \E t \in Tasks : ApiLookup(t)
  \/ \E t \in Tasks : ApiCheck(t)
  \/ \E t \in Tasks : ApiResponse(t)
  \/ \E t \in Tasks : ApiStore(t)
  \/ \E t \in Tasks : CollectEmails(t)
  \/ \E t \in Tasks : CollectResult(t)

SpecPool == InitPool /\ [][NextPool]_vars

\* ---------------------------------------------- comparative metrics (GitHub)
\* calculate_before_auto_date_range / calculate_after_auto_date_range on the
\* time scale of Times: two windows of one unit, the first ending one unit
\* before the second starts.
BeforeRange == <<MaxTime - 3, MaxTime - 2>>
AfterRange == <<MaxTime - 1, MaxTime>>

\* Variant of calculate_metrics_for_period that aggregates no record.
calculate_metrics_for_period_Discarding(p, prs, failed) ==
  [prs |-> <<>>, total_prs |-> -1,
   failed_prs |-> IF p = "github_csv" THEN failed ELSE -1]

\* calculate_metrics_for_period_optimized: the records the period aggregates
\* and its tallies (-1 stands for a key that the result does not have: the
\* result of a period without records has no total_prs, the basic script
\* reports no failed_prs).
calculate_metrics_for_period(p, prs, failed) ==
  [prs |-> prs,
   total_prs |-> IF prs = <<>> THEN -1 ELSE Len(prs),
   failed_prs |-> IF p = "github_csv" THEN failed ELSE -1]

\* Every record of the repository can be processed: the items that raise
\* are the subject of the GitHub paginator's specification.
InitCompare ==
  /\ platform \in GitHub
  /\ branch = ""
  /\ repo \in {r \in Repos(platform, branch, BeforeRange) :
                \A i \in 1..Len(r) : r[i].kind = "ok"}
  /\ start_datetime = BeforeRange[1]
  /\ end_datetime = BeforeRange[2]
  /\ serverVer = 1
  /\ TransportIdle
  /\ ppc = "loop"
  /\ PaginatorIdle
  /\ AUTOMATED_DATE = -1
  /\ WEEKS_BACK = 0
  /\ utc_offset = 0
  /\ now = 0
  /\ before_range = BeforeRange
  /\ after_range = AfterRange
  /\ GetIdle
  /\ PoolIdle
  /\ CompareIdle
  /\ MetricsIdle
  /\ ReportIdle

\* before_metrics = self.calculate_metrics_for_period_optimized(...,
\* "beforeAuto", ...) has returned; the afterAuto period starts on the same
\* calculator (same cache, same pr_data_cache, same quota counter).
AfterPeriod ==
  /\ platform \in GitHub
  /\ ppc = "done"
  /\ run = 1
  /\ before_metrics' = calculate_metrics_for_period(platform, all_prs, failed_pr_count)
  /\ start_datetime' = after_range[1]
  /\ end_datetime' = after_range[2]
  /\ run' = 2
  /\ all_prs' = <<>>
  /\ cursor' = 0
  /\ has_more' = TRUE
  /\ batch_count' = 0
  /\ failed_pr_count' = 0
  /\ fetch_failed' = FALSE
  /\ ppc' = "loop"
  /\ UNCHANGED <<pr_data_cache, first_prs, run_net, after_metrics, combined_metrics>>
  /\ UNCHANGED <<platform, repo, branch, serverVer, wVars, bVars, kVars, mVars, rVars, tVars>>

\* after_metrics has returned; the two results are combined under their
\* prefixes and returned.
Combine ==
  /\ platform \in GitHub
  /\ ppc = "done"
  /\ run = 2
  /\ after_metrics' = calculate_metrics_for_period(platform, all_prs, failed_pr_count)
  /\ combined_metrics' = [beforeAuto |-> before_metrics, afterAuto |-> after_metrics']
  /\ ppc' = "combined"
  /\ UNCHANGED <<cursor, has_more, batch_count, all_prs, failed_pr_count,
                 pr_data_cache, fetch_failed, run, first_prs, run_net, before_metrics>>
  /\ UNCHANGED <<platform, repo, branch, start_datetime, end_datetime, serverVer,
                 wVars, bVars, kVars, mVars, rVars, tVars>>

NextCompare ==
  \/ FetchBatch
  \/ CacheLookup
  \/ CheckRateLimit
  \/ Post
  \/ Respond
  \/ ProcessBatch
  \/ AfterPeriod
  \/ Combine

\* The program is sequential: a step that can be taken is taken.
SpecCompare == InitCompare /\ [][NextCompare]_vars /\ WF_vars(NextCompare)

\* ------------------------------------------- records and per-record metrics
\* One raw item is normalized into a record and the per-record metrics of
\* calculate_metrics_for_period are computed from the record.  Timestamps
\* are whole hours after the item's creation (created_at = 0), so the
\* division by 3600 and round(..., 2) leave them as they are.  A login is a
\* sequence of tokens, so that endswith and "in" are computed on it.
Alice == <<"alice">>
Bob == <<"bob">>
CiBot == <<"ci", "[bot]">>
App == <<"app">>
Unknown == <<"unknown">>

\* login.endswith(token)
EndsWith(login, token) == login # <<>> /\ login[Len(login)] = token

\* any(indicator in username for indicator in bot_indicators)
ContainsAny(login, tokens) == \E i \in 1..Len(login) : login[i] \in tokens

\* Actors as the API reports them; typename "null" is a null author field,
\* "missing" an item without the field.
Actors == {[login |-> Alice, typename |-> "User"], [login |-> Bob, typename |-> "User"],
           [login |-> CiBot, typename |-> "User"], [login |-> App, typename |-> "Bot"]}
NullActor == [login |-> <<>>, typename |-> "null"]
MissingActor == [login |-> <<>>, typename |-> "missing"]

\* The GraphQL API of GitHub always sends the author field (possibly null).
Authors(p) ==
  {[login |-> Alice, typename |-> "User"], [login |-> CiBot, typename |-> "User"],
   [login |-> App, typename |-> "Bot"], NullActor}
    \cup (IF p \in GitHub THEN {} ELSE {MissingActor})

BoundedSeq(S, n) == UNION {[1..k -> S] : k \in 0..n}

Entries == [kind : {"comment", "review"}, author : Actors, t : 1..(MaxStamp - 1)]
Commits == [name : {Alice, Bob}, t : 2..MaxStamp]

MetricPlatforms == {"github", "github_csv", "bitbucket", "gitlab_csv"}

\* is_bot_user of the Bitbucket script.
bot_indicators == {"[bot]", "bot", "bitbucket-pipelines", "dependabot", "renovate"}

\* The bot test applied to the author of a review, comment or note.
\* GitLab CSV adds every note author to the commenters.
IsBotEntryAuthor(p, a) ==
  IF p \in GitHub THEN a.typename = "Bot" \/ EndsWith(a.login, "[bot]")
  ELSE IF p = "bitbucket" THEN a.login = <<>> \/ ContainsAny(a.login, bot_indicators)
  ELSE FALSE

\* The bot test applied to the author of the item.
\* GitHub: pr_data['author'].get('__typename') == 'Bot' if pr_data['author']
\* else True.  GitLab CSV: author_username.endswith('[bot]') if
\* author_username else False.  Bitbucket: is_bot_user(author).
IsBotAuthor(p, a) ==
  IF p \in GitHub THEN a.typename = "null" \/ a.typename = "Bot"
  ELSE IF p = "gitlab_csv" THEN EndsWith(a.login, "[bot]")
  ELSE a.login = <<>> \/ ContainsAny(a.login, bot_indicators)

\* The statement that reads the author raises: GitLab CSV calls
\* node.get('author', {}).get('username', '') on a null author.
AuthorRaises(p, a) == p = "gitlab_csv" /\ a.typename = "null"

RECURSIVE UserEntries(_, _, _)
\* The entries the script keeps for the time metrics, as (login, t) pairs:
\* GitHub keeps the reviews of non-bot authors (reviews_list), Bitbucket the
\* comments of non-bot users (user_comments).
UserEntries(p, entries, i) ==
  IF i > Len(entries) THEN <<>>
  ELSE LET e == entries[i]
           keep == /\ ~IsBotEntryAuthor(p, e.author)
                   /\ (p \in GitHub => e.kind = "review")
       IN (IF keep THEN <<[login |-> e.author.login, t |-> e.t]>> ELSE <<>>)
            \o UserEntries(p, entries, i + 1)

\* _process_pr_graphql_data (GitHub), the loop body of
\* fetch_mrs_batch_graphql (GitLab CSV), the fields calculate_metrics_for_
\* period reads from the raw item (Bitbucket).
Normalize(p, node) ==
  [author |-> IF p \in GitHub /\ node.author.typename = "null" THEN Unknown
              ELSE node.author.login,
   is_bot_author |-> IsBotAuthor(p, node.author),
   reviews |-> IF p = "gitlab_csv" THEN <<>> ELSE UserEntries(p, node.entries, 1),
   reviewers |-> IF p \in GitHub
                 THEN {node.entries[i].author.login : i \in
                         {j \in 1..Len(node.entries) :
                            /\ node.entries[j].kind = "review"
                            /\ ~IsBotEntryAuthor(p, node.entries[j].author)}}
                 ELSE {},
   commenters |-> IF p = "bitbucket" THEN {}
                  ELSE {node.entries[i].author.login : i \in
                          {j \in 1..Len(node.entries) :
                             ~IsBotEntryAuthor(p, node.entries[j].author)}},
   commits |-> node.commits]

SetMin(S) == CHOOSE x \in S : \A y \in S : x <= y

\* get_time_to_first_comment; -1 stands for None.  GitHub skips the reviews
\* of the PR author, Bitbucket takes the first of user_comments.
get_time_to_first_comment(p, rec) ==
  LET times == {rec.reviews[i].t : i \in
                  {j \in 1..Len(rec.reviews) :
                     p \in GitHub => rec.reviews[j].login # rec.author}}
  IN IF times = {} THEN -1 ELSE SetMin(times)

\* The test that a commit is by the PR author.  The basic GitHub script reads
\* commit.get('author', {}).get('login') from a dict that has only the key
\* 'commit', so it compares None with pr.author; the CSV script compares
\* commit['commit']['author']['name'].
CommitByAuthor(p, commit, author) ==
  IF p = "github" THEN FALSE
  ELSE commit.name # <<>> /\ commit.name = author

\* get_time_from_first_comment_to_followup_commit; -1 stands for None.
get_time_from_first_comment_to_followup_commit(p, rec) ==
  LET first_comment_time == get_time_to_first_comment(p, rec)
      followups == {rec.commits[i].t : i \in
                      {j \in 1..Len(rec.commits) :
                         /\ rec.commits[j].t > first_comment_time
                         /\ CommitByAuthor(p, rec.commits[j], rec.author)}}
  IN IF first_comment_time = -1 \/ followups = {} THEN -1
     ELSE SetMin(followups) - first_comment_time

\* The unique_contributors set of a period that holds this one record.
\* Bitbucket adds the author only.
unique_contributors(p, rec) ==
  IF p \in GitHub
  THEN (IF rec.is_bot_author THEN {} ELSE {rec.author})
         \cup rec.reviewers \cup rec.commenters
  ELSE IF rec.author # <<>> /\ ~rec.is_bot_author THEN {rec.author} ELSE {}

InitMetrics ==
  /\ platform \in MetricPlatforms
  /\ pr_node \in [author : Authors(platform),
                   entries : BoundedSeq(Entries, MaxEntries),
                   commits : BoundedSeq(Commits, MaxCommits)]
  /\ pr_record = <<>>
  /\ pr_metrics = <<>>
  /\ repo = <<>>
  /\ branch = ""
  /\ start_datetime = 0
  /\ end_datetime = 0
  /\ serverVer = 1
  /\ TransportIdle
  /\ ppc = "raw"
  /\ PaginatorIdle
  /\ WindowIdle
  /\ GetIdle
  /\ PoolIdle
  /\ CompareIdle
  /\ ReportIdle

\* The item is normalized, or the statement that reads its author raises.
NormalizeItem ==
  /\ ppc = "raw"
  /\ IF AuthorRaises(platform, pr_node.author)
     THEN /\ ppc' = "raised"
          /\ UNCHANGED pr_record
     ELSE /\ ppc' = "record"
          /\ pr_record' = Normalize(platform, pr_node)
  /\ UNCHANGED <<pr_node, pr_metrics>>
  /\ UNCHANGED <<platform, repo, branch, start_datetime, end_datetime, serverVer,
                 wVars, bVars, kVars, cVars, rVars, tVars>>
  /\ UNCHANGED <<cursor, has_more, batch_count, all_prs, failed_pr_count,
                 pr_data_cache, fetch_failed, run, first_prs, run_net>>

\* The body of "for pr in prs" of calculate_metrics_for_period.
ComputeMetrics ==
  /\ ppc = "record"
  /\ platform # "gitlab_csv"
  /\ ppc' = "metrics"
  /\ pr_metrics' =
       [time_to_first_comment |-> get_time_to_first_comment(platform, pr_record),
        time_to_followup |->
          IF platform \in GitHub
          THEN get_time_from_first_comment_to_followup_commit(platform, pr_record)
          ELSE -1,
        unique_contributors |-> unique_contributors(platform, pr_record)]
  /\ UNCHANGED <<pr_node, pr_record>>
  /\ UNCHANGED <<platform, repo, branch, start_datetime, end_datetime, serverVer,
                 wVars, bVars, kVars, cVars, rVars, tVars>>
  /\ UNCHANGED <<cursor, has_more, batch_count, all_prs, failed_pr_count,
                 pr_data_cache, fetch_failed, run, first_prs, run_net>>

NextMetrics ==
  \/ NormalizeItem
  \/ ComputeMetrics

SpecMetrics == InitMetrics /\ [][NextMetrics]_vars

\* ------------------------------------------------------- period aggregation
\* calculate_metrics_for_period_optimized from the list of records on.  The
\* hour values are Python floats: a float keeps MantissaBits significant bits
\* and every addition rounds its result to the nearest float, ties to even.
MantissaBits == 3
MaxRecords == 3

RECURSIVE Quantum(_)
\* The spacing of the floats around x.
Quantum(x) == IF x < Pow2(MantissaBits) THEN 1 ELSE 2 * Quantum(x \div 2)

\* x rounded to the nearest multiple of q, ties to the even multiple.
RoundToEven(x, q) ==
  LET lo == (x \div q) * q
      r == x % q
  IN IF 2 * r < q THEN lo
     ELSE IF 2 * r > q THEN lo + q
     ELSE IF (x \div q) % 2 = 0 THEN lo ELSE lo + q

\* a + b of two floats.
float_add(a, b) == RoundToEven(a + b, Quantum(a + b))

RECURSIVE float_sum(_)
\* sum(values), and "total += value" over the list: from 0, left to right.
float_sum(values) ==
  IF values = <<>> THEN 0
  ELSE float_add(float_sum(SubSeq(values, 1, Len(values) - 1)),
                 values[Len(values)])

\* round(num / den, 2), in hundredths.
round2(num, den) == RoundToEven(100 * num, den) \div den

\* The records a period can hold: the author, the hours from creation to
\* merge (-1 = not merged), the results of get_time_to_first_comment and of
\* get_time_from_first_comment_to_followup_commit (-1 = None) and the number
\* of comments.  A follow-up needs a first comment, a first comment a comment.
PeriodRecords ==
  {r \in [author : {Alice, Bob}, is_bot_author : {FALSE},
          reviewers : {{}}, commenters : {{}},
          merged_hours : {-1, 4}, time_to_first : {-1, 2, 4, 7},
          time_to_followup : {-1, 2}, comments_count : {0, 1}] :
     /\ r.time_to_first = -1 => r.time_to_followup = -1
     /\ r.time_to_first # -1 => r.comments_count = 1}

RECURSIVE merge_times(_)
\* The time_to_merge of the merged records ("if pr.merged_at").
merge_times(prs) ==
  IF prs = <<>> THEN <<>>
  ELSE IF Head(prs).merged_hours # -1
       THEN <<Head(prs).merged_hours>> \o merge_times(Tail(prs))
       ELSE merge_times(Tail(prs))

RECURSIVE time_to_first_comment_values_Padded(_)
RECURSIVE time_to_first_comment_values(_)
time_to_first_comment_values_Padded(prs) ==
  IF prs = <<>> THEN <<>>
  ELSE <<IF Head(prs).time_to_first # -1 THEN Head(prs).time_to_first ELSE 0>>
         \o time_to_first_comment_values_Padded(Tail(prs))

\* "if time_to_first is not None: time_to_first_comment_values.append(...)"
time_to_first_comment_values(prs) ==
  IF prs = <<>> THEN <<>>
  ELSE IF Head(prs).time_to_first # -1
       THEN <<Head(prs).time_to_first>> \o time_to_first_comment_values(Tail(prs))
       ELSE time_to_first_comment_values(Tail(prs))

RECURSIVE time_from_first_comment_to_followup_values(_)
time_from_first_comment_to_followup_values(prs) ==
  IF prs = <<>> THEN <<>>
  ELSE IF Head(prs).time_to_followup # -1
       THEN <<Head(prs).time_to_followup>>
              \o time_from_first_comment_to_followup_values(Tail(prs))
       ELSE time_from_first_comment_to_followup_values(Tail(prs))

RECURSIVE total_comments(_)
total_comments(prs) ==
  IF prs = <<>> THEN 0
  ELSE Head(prs).comments_count + total_comments(Tail(prs))

\* "sum(values) / len(values) if values else 0", rounded to two decimals.
average(values) ==
  IF values = <<>> THEN 0 ELSE round2(float_sum(values), Len(values))

\* to_summary_dict of each record, in the order of the list (CSV variant).
pr_details(prs) == prs

\* The period result; <<>> stands for the {} of an empty period.  Averages
\* and rates are in hundredths.  The CSV variant adds the record details and
\* the number of processed records.
calculate_metrics_for_period_optimized(p, prs, weeks_back) ==
  IF prs = <<>>
  THEN IF p = "github_csv" THEN [successfully_processed_prs |-> 0] ELSE <<>>
  ELSE
    LET result ==
          [total_prs |-> Len(prs),
           merged_prs |-> Len(merge_times(prs)),
           weeks_analyzed |-> weeks_back,
           prs_created_per_week |-> round2(Len(prs), weeks_back),
           prs_merged_per_week |-> round2(Len(merge_times(prs)), weeks_back),
           average_comments_per_pr |->
             IF Len(prs) > 0 THEN round2(total_comments(prs), Len(prs)) ELSE 0,
           average_time_to_merge_hours |-> average(merge_times(prs)),
           average_time_to_first_comment_hours |->
             average(time_to_first_comment_values(prs)),
           average_time_from_first_comment_to_followup_commit_hours |->
             average(time_from_first_comment_to_followup_values(prs)),
           unique_contributors_count |->
             Cardinality(UNION {unique_contributors(p, prs[i]) : i \in DOMAIN prs})]
    IN IF p = "github_csv"
       THEN result @@ [pr_details |-> pr_details(prs),
                       successfully_processed_prs |-> Len(prs)]
       ELSE result

\* The records of one author whose only comments are the first comments.
SoloRecords ==
  {r \in PeriodRecords :
     r.author = Alice /\ (r.comments_count = 1 <=> r.time_to_first # -1)}

InitPeriod ==
  /\ platform = "github"
  /\ period_prs \in BoundedSeq(SoloRecords, MaxRecords)
  /\ period_result = <<>>
  /\ first_result = <<>>
  /\ AUTOMATED_DATE = -1
  /\ WEEKS_BACK \in 1..MaxWeeks
  /\ utc_offset = 0
  /\ now = 0
  /\ before_range = <<>>
  /\ after_range = <<>>
  /\ repo = <<>>
  /\ branch = ""
  /\ start_datetime = 0
  /\ end_datetime = 0
  /\ serverVer = 1
  /\ TransportIdle
  /\ ppc = "period"
  /\ PaginatorIdle
  /\ GetIdle
  /\ PoolIdle
  /\ CompareIdle
  /\ MetricsIdle
  /\ ExceptPeriodIdle

\* calculate_metrics_for_period_optimized, after the fetch of the records.
PeriodMetrics ==
  /\ ppc = "period"
  /\ ppc' = "reported"
  /\ period_result' =
       calculate_metrics_for_period_optimized(platform, period_prs, WEEKS_BACK)
  /\ UNCHANGED <<period_prs, first_result, exceptPeriod>>
  /\ UNCHANGED <<platform, repo, branch, start_datetime, end_datetime, serverVer,
                 wVars, bVars, kVars, cVars, mVars, tVars>>
  /\ UNCHANGED <<cursor, has_more, batch_count, all_prs, failed_pr_count,
                 pr_data_cache, fetch_failed, run, first_prs, run_net>>

NextPeriod == PeriodMetrics

SpecPeriod == InitPeriod /\ [][NextPeriod]_vars

\* The same period is computed again from the same records in another order.
InitReorder ==
  /\ platform \in GitHub
  /\ period_prs \in BoundedSeq(PeriodRecords, MaxRecords)
  /\ period_result = <<>>
  /\ first_result = <<>>
  /\ AUTOMATED_DATE = -1
  /\ WEEKS_BACK = 1
  /\ utc_offset = 0
  /\ now = 0
  /\ before_range = <<>>
  /\ after_range = <<>>
  /\ repo = <<>>
  /\ branch = ""
  /\ start_datetime = 0
  /\ end_datetime = 0
  /\ serverVer = 1
  /\ TransportIdle
  /\ ppc = "period"
  /\ PaginatorIdle
  /\ GetIdle
  /\ PoolIdle
  /\ CompareIdle
  /\ MetricsIdle
  /\ ExceptPeriodIdle

Reorder ==
  /\ ppc = "reported"
  /\ run = 1
  /\ \E f \in Perms(DOMAIN period_prs) :
       period_prs' = [i \in DOMAIN period_prs |-> period_prs[f[i]]]
  /\ first_result' = period_result
  /\ period_result' = <<>>
  /\ ppc' = "period"
  /\ run' = 2
  /\ UNCHANGED exceptPeriod
  /\ UNCHANGED <<platform, repo, branch, start_datetime, end_datetime, serverVer,
                 wVars, bVars, kVars, cVars, mVars, tVars>>
  /\ UNCHANGED <<cursor, has_more, batch_count, all_prs, failed_pr_count,
                 pr_data_cache, fetch_failed, first_prs, run_net>>

NextReorder ==
  \/ PeriodMetrics
  \/ Reorder

SpecReorder == InitReorder /\ [][NextReorder]_vars

\* ------------------------------------------------------------------ main()
\* The values of the WEEKS_BACK environment variable and of the answers to
\* the prompt for the number of weeks.
WeeksInputs == -1..MaxWeeks

validate_config_IgnoringWeeks == settings_valid

\* validate_config over the module's globals: no error was recorded.
validate_config == settings_valid /\ WEEKS_BACK > 0

\* What prompt_for_config can return or do.  The GitHub script asks again
\* until every answer is valid and returns None when the summary is not
\* confirmed; the CSV script takes int(weeks), or the current WEEKS_BACK for
\* an empty answer, without a check (int raises on a non-integer answer) and
\* returns None for a missing token or repository.
prompt_for_config(p) ==
  IF p = "github"
  THEN [kind : {"none"}, weeks_back : {0}, settings_valid : {FALSE},
        automated_date : {-1}]
         \cup [kind : {"config"}, weeks_back : 1..MaxWeeks, settings_valid : {TRUE},
                automated_date : {-1} \cup AutomationDates]
  ELSE [kind : {"none", "raise"}, weeks_back : {0}, settings_valid : {FALSE},
        automated_date : {-1}]
         \cup [kind : {"config"}, weeks_back : WeeksInputs \cup {WEEKS_BACK},
                settings_valid : BOOLEAN,
                automated_date : {-1} \cup AutomationDates]

InitMain ==
  /\ platform \in GitHub
  /\ WEEKS_BACK \in WeeksInputs
  /\ settings_valid \in BOOLEAN
  /\ constructed = FALSE
  /\ prompted = FALSE
  /\ AUTOMATED_DATE \in {-1} \cup AutomationDates
  /\ utc_offset = 0
  /\ now = 0
  /\ before_range = <<>>
  /\ after_range = <<>>
  /\ repo = <<>>
  /\ branch = ""
  /\ start_datetime = 0
  /\ end_datetime = 0
  /\ serverVer = 1
  /\ TransportIdle
  /\ ppc = "main"
  /\ PaginatorIdle
  /\ GetIdle
  /\ PoolIdle
  /\ CompareIdle
  /\ MetricsIdle
  /\ ExceptMainIdle

\* "is_valid, errors, config = validate_config()"
MainValidate ==
  /\ ppc = "main"
  /\ ppc' = IF validate_config THEN "validated" ELSE "invalid"
  /\ UNCHANGED <<aVars, exceptMain>>
  /\ UNCHANGED <<platform, repo, branch, start_datetime, end_datetime, serverVer,
                 wVars, bVars, kVars, cVars, mVars, tVars>>
  /\ UNCHANGED <<cursor, has_more, batch_count, all_prs, failed_pr_count,
                 pr_data_cache, fetch_failed, run, first_prs, run_net>>

\* The "if not is_valid" branch: the user declines, or prompt_for_config
\* runs, the globals are updated and the configuration is validated again.
MainInteractive ==
  /\ ppc = "invalid"
  /\ \E answer \in {"y", "n"} : \E config \in prompt_for_config(platform) :
       IF answer = "n" \/ config.kind = "none"
       THEN /\ ppc' = "exit"
            /\ UNCHANGED <<WEEKS_BACK, AUTOMATED_DATE, settings_valid, prompted>>
       ELSE IF config.kind = "raise"
       THEN /\ ppc' = "raised"
            /\ UNCHANGED <<WEEKS_BACK, AUTOMATED_DATE, settings_valid, prompted>>
       ELSE /\ WEEKS_BACK' = config.weeks_back
            /\ AUTOMATED_DATE' = config.automated_date
            /\ settings_valid' = config.settings_valid
            /\ prompted' = TRUE
            /\ ppc' = IF validate_config' THEN "validated" ELSE "exit"
  /\ UNCHANGED <<constructed, exceptMain>>
  /\ UNCHANGED <<platform, repo, branch, start_datetime, end_datetime, serverVer,
                 utc_offset, now, before_range, after_range,
                 bVars, kVars, cVars, mVars, tVars>>
  /\ UNCHANGED <<cursor, has_more, batch_count, all_prs, failed_pr_count,
                 pr_data_cache, fetch_failed, run, first_prs, run_net>>

\* "calculator = OptimizedGitHubMetricsCalculator(...)"
MainConstruct ==
  /\ ppc = "validated"
  /\ ppc' = "calculator"
  /\ constructed' = TRUE
  /\ UNCHANGED <<settings_valid, prompted, exceptMain>>
  /\ UNCHANGED <<platform, repo, branch, start_datetime, end_datetime, serverVer,
                 wVars, bVars, kVars, cVars, mVars, tVars>>
  /\ UNCHANGED <<cursor, has_more, batch_count, all_prs, failed_pr_count,
                 pr_data_cache, fetch_failed, run, first_prs, run_net>>

\* "calculator.calculate_comparative_metrics(WEEKS_BACK, manual_metrics)":
\* the first transport call of the run.
MainRun ==
  /\ ppc = "calculator"
  /\ ppc' = "done"
  /\ run_net' = TRUE
  /\ UNCHANGED <<aVars, exceptMain>>
  /\ UNCHANGED <<platform, repo, branch, start_datetime, end_datetime, serverVer,
                 wVars, bVars, kVars, cVars, mVars, tVars>>
  /\ UNCHANGED <<cursor, has_more, batch_count, all_prs, failed_pr_count,
                 pr_data_cache, fetch_failed, run, first_prs>>

NextMain ==
  \/ MainValidate
  \/ MainInteractive
  \/ MainConstruct
  \/ MainRun

SpecMain == InitMain /\ [][NextMain]_vars

\* ---------------------------------------------- lists of names (CSV scripts)
\* A string is a sequence of characters.
MaxChars == 4
Chars == {"a", "b", " ", "\t", ";"}
Whitespace == {" ", "\t"}

RECURSIVE split(_)
\* s.split(';'): at least one segment.
split(s) ==
  IF \A i \in DOMAIN s : s[i] # ";" THEN <<s>>
  ELSE LET i == CHOOSE k \in DOMAIN s :
                  s[k] = ";" /\ \A j \in 1..(k - 1) : s[j] # ";"
       IN <<SubSeq(s, 1, i - 1)>> \o split(SubSeq(s, i + 1, Len(s)))

strip_Keeping(s) == s

RECURSIVE strip(_)
\* s.strip(): without the leading and trailing whitespace.
strip(s) ==
  IF s # <<>> /\ Head(s) \in Whitespace THEN strip(Tail(s))
  ELSE IF s # <<>> /\ s[Len(s)] \in Whitespace
       THEN strip(SubSeq(s, 1, Len(s) - 1))
       ELSE s

RECURSIVE stripped_nonempty(_)
\* [r.strip() for r in segments] followed by [r for r in repos if r]
stripped_nonempty(segments) ==
  IF segments = <<>> THEN <<>>
  ELSE (IF strip(Head(segments)) # <<>> THEN <<strip(Head(segments))>> ELSE <<>>)
         \o stripped_nonempty(Tail(segments))

parse_repo_names(repo_string) ==
  IF repo_string.is_none \/ repo_string.text = <<>> THEN <<>>
  ELSE stripped_nonempty(split(repo_string.text))

parse_project_ids(project_string) ==
  IF project_string.is_none \/ project_string.text = <<>> THEN <<>>
  ELSE stripped_nonempty(split(project_string.text))

InitParse ==
  /\ platform \in {"github_csv", "gitlab_csv"}
  /\ name_string \in {NoString}
       \cup [is_none : {FALSE}, text : BoundedSeq(Chars, MaxChars)]
  /\ names = <<>>
  /\ repo = <<>>
  /\ branch = ""
  /\ start_datetime = 0
  /\ end_datetime = 0
  /\ serverVer = 1
  /\ TransportIdle
  /\ ppc = "parse"
  /\ PaginatorIdle
  /\ WindowIdle
  /\ GetIdle
  /\ PoolIdle
  /\ CompareIdle
  /\ MetricsIdle
  /\ ExceptParseIdle

\* "repos = parse_repo_names(REPO_NAME)" / parse_project_ids(PROJECT_ID)
ParseNames ==
  /\ ppc = "parse"
  /\ ppc' = "parsed"
  /\ names' = IF platform = "github_csv" THEN parse_repo_names(name_string)
              ELSE parse_project_ids(name_string)
  /\ UNCHANGED <<name_string, exceptParse>>
  /\ UNCHANGED <<platform, repo, branch, start_datetime, end_datetime, serverVer,
                 wVars, bVars, kVars, cVars, mVars, tVars>>
  /\ UNCHANGED <<cursor, has_more, batch_count, all_prs, failed_pr_count,
                 pr_data_cache, fetch_failed, run, first_prs, run_net>>

NextParse == ParseNames

SpecParse == InitParse /\ [][NextParse]_vars

\* ------------------------------------------------------ create_results_zip
\* A path is the sequence of its components.
MaxFiles == 2
Paths == {<<"x", "a.csv">>, <<"y", "a.csv">>, <<"x", "b.csv">>}

\* A path does not exist, is a file that can be read, or exists and cannot
\* be read (zipf.write raises).
FileStates == {"missing", "file", "unreadable"}

basename_Whole(path) == path

\* os.path.basename
basename(path) == <<path[Len(path)]>>

RECURSIVE write_entries(_, _, _)
\* The body of "with zipfile.ZipFile(...) as zipf": the entries written and
\* whether a write raised.
write_entries(files, fsys, st) ==
  IF files = <<>> \/ st.raised THEN st
  ELSE LET csv_file == Head(files)
       IN write_entries(Tail(files), fsys,
            IF fsys.files[csv_file] = "missing" THEN st
            ELSE IF fsys.files[csv_file] = "unreadable"
                 THEN [st EXCEPT !.raised = TRUE]
                 ELSE [st EXCEPT !.entries = Append(@, basename(csv_file))])

\* create_results_zip: the value returned and the archive left at the target
\* path.  Opening the archive raises when the target cannot be written.
create_results_zip(files, fsys, old) ==
  IF files = <<>> THEN [result |-> FALSE, archive |-> old]
  ELSE IF ~fsys.target_writable THEN [result |-> FALSE, archive |-> old]
  ELSE LET st == write_entries(files, fsys, [entries |-> <<>>, raised |-> FALSE])
       IN [result |-> ~st.raised,
           archive |-> [exists |-> TRUE, entries |-> st.entries]]

InitZip ==
  /\ platform \in {"github_csv", "gitlab_csv"}
  /\ csv_files \in BoundedSeq(Paths, MaxFiles)
  /\ fs \in [files : [Paths -> FileStates], target_writable : BOOLEAN]
  /\ archive = NoArchive
  /\ zip_result = "none"
  /\ repo = <<>>
  /\ branch = ""
  /\ start_datetime = 0
  /\ end_datetime = 0
  /\ serverVer = 1
  /\ TransportIdle
  /\ ppc = "zip"
  /\ PaginatorIdle
  /\ WindowIdle
  /\ GetIdle
  /\ PoolIdle
  /\ CompareIdle
  /\ MetricsIdle
  /\ ExceptZipIdle

\* One call of create_results_zip(csv_files, zip_filename).
CreateResultsZip ==
  /\ ppc = "zip"
  /\ ppc' = "zipped"
  /\ LET r == create_results_zip(csv_files, fs, archive)
     IN /\ zip_result' = (IF r.result THEN "True" ELSE "False")
        /\ archive' = r.archive
  /\ UNCHANGED <<csv_files, fs, exceptZip>>
  /\ UNCHANGED <<platform, repo, branch, start_datetime, end_datetime, serverVer,
                 wVars, bVars, kVars, cVars, mVars, tVars>>
  /\ UNCHANGED <<cursor, has_more, batch_count, all_prs, failed_pr_count,
                 pr_data_cache, fetch_failed, run, first_prs, run_net>>

NextZip == CreateResultsZip

SpecZip == InitZip /\ [][NextZip]_vars

\* ------------------------------------- github_pr_analysis.py: get_pull_requests
MaxPages == 2        \* page requests of one call (scaled from 100)

\* cutoff_date = datetime.utcnow() - timedelta(days=days)
Cutoffs == {2, 3}

\* GET /repos/{owner}/{repo}/pulls?sort=created&direction=desc: the pull
\* requests of the repository, newest first, created before, at or after the
\* cutoff.
AnalysisRepos ==
  UNION {{r \in [1..n -> [t : 1..3, kind : {"ok"}]] :
            \A i \in 1..n : i > 1 => r[i - 1].t >= r[i].t}
         : n \in 0..(MaxPages * PageSize + 1)}

\* per_page, page: the items of page number page.
PullsPage(r, page) == PageNodes(r, (page - 1) * PageSize)

RECURSIVE ScanPage(_, _, _)
\* for pr in data: append while created_at >= cutoff_date, return at the
\* first older one.  The result is the list and whether the call returned.
ScanPage(r, data, prs) ==
  IF data = <<>> THEN [prs |-> prs, returned |-> FALSE]
  ELSE IF r[Head(data)].t >= start_datetime
       THEN ScanPage(r, Tail(data), Append(prs, [number |-> Head(data)]))
       ELSE [prs |-> prs, returned |-> TRUE]

\* if page > 100: break
PageLimitReached_Never(page) == FALSE

PageLimitReached(page) == page > MaxPages

InitAnalysis ==
  /\ platform = "github_rest"
  /\ repo \in AnalysisRepos
  /\ branch = ""
  /\ start_datetime \in Cutoffs
  /\ end_datetime = 0
  /\ serverVer = 1
  /\ TransportIdle
  /\ ppc = "pulls"
  /\ cursor = 0
  /\ has_more = TRUE
  /\ batch_count = 1
  /\ all_prs = <<>>
  /\ failed_pr_count = 0
  /\ pr_data_cache = [n \in 1..(MaxItems + 1) |-> 0]
  /\ fetch_failed = FALSE
  /\ run = 1
  /\ first_prs = <<>>
  /\ run_net = FALSE
  /\ WindowIdle
  /\ GetIdle
  /\ PoolIdle
  /\ CompareIdle
  /\ MetricsIdle
  /\ ReportIdle

AnalysisFrame ==
  /\ UNCHANGED <<cursor, has_more, failed_pr_count, pr_data_cache, run,
                 first_prs, run_net>>
  /\ UNCHANGED <<envVars, tVars>>

\* One pass of the while loop of get_pull_requests whose request got a
\* response: page is batch_count, prs is all_prs.
AnalysisGetPage ==
  /\ platform = "github_rest"
  /\ ppc = "pulls"
  /\ LET data == PullsPage(repo, batch_count)
         scan == ScanPage(repo, data, all_prs)
     IN IF data = <<>>
        THEN /\ ppc' = "done"
             /\ UNCHANGED <<all_prs, batch_count>>
        ELSE /\ all_prs' = scan.prs
             /\ IF scan.returned
                THEN /\ ppc' = "done"
                     /\ UNCHANGED batch_count
                ELSE /\ batch_count' = batch_count + 1
                     /\ ppc' = IF PageLimitReached(batch_count + 1)
                               THEN "done" ELSE "pulls"
  /\ UNCHANGED fetch_failed
  /\ AnalysisFrame

\* except requests.exceptions.RequestException: return []
AnalysisRequestError ==
  /\ platform = "github_rest"
  /\ ppc = "pulls"
  /\ all_prs' = <<>>
  /\ fetch_failed' = TRUE
  /\ ppc' = "done"
  /\ UNCHANGED batch_count
  /\ AnalysisFrame

NextAnalysis == AnalysisGetPage \/ AnalysisRequestError

SpecAnalysis == InitAnalysis /\ [][NextAnalysis]_vars

\* ------------------------------------------------------------------ claims
\* C3: in the GitHub, Azure and optimized GitLab transports every network
\* call is preceded by a cache lookup under the request's key, a cache hit
\* returns the stored payload without any network call, and a payload is
\* stored only on a successful response (HTTP 200 without 'errors'), under
\* the key of the request.
C3_CacheAroundTransport ==
  /\ [](tpc \in {"check", "post", "handle"} => tlooked = tkey)
  /\ []((tpc = "ret" /\ tsource = "cache") => (~posted /\ tresult # NoneBody))
  /\ [][(tpc = "lookup" /\ cache[tkey] # NoneBody /\ tpc' # tpc)
           => (tpc' = "ret" /\ tresult' = cache[tkey] /\ tsource' = "cache"
               /\ attempts' = attempts)]_vars
  /\ [][cache' # cache
           => (/\ tpc = "handle"
               /\ tresp.status = 200
               /\ ~tresp.errors
               /\ cache' = [cache EXCEPT ![tkey] = Body(tkey, tresp.ver)])]_vars

\* C3 witness: a call returned a payload from the cache that an earlier
\* successful response of an older server version had stored.
C3_Witness ==
  /\ ppc = "driver"
  /\ tpc = "ret"
  /\ tsource = "cache"
  /\ tresult = cache[tkey]
  /\ tresult.ver < serverVer
  /\ ~posted

\* C4: a GitHub or Azure transport call makes a bounded number of attempts
\* and, also when every attempt is answered with the rate-limit status,
\* returns to its caller.
C4_RetryBounded ==
  /\ [](attempts <= RecursionLimit)
  /\ (ppc = "await") ~> (ppc = "returned")

\* C4 witness: a call returned None after every attempt the stack allows
\* was answered with the rate-limit status.
C4_Witness ==
  /\ ppc = "await"
  /\ tpc = "ret"
  /\ posted
  /\ paused
  /\ attempts = RecursionLimit
  /\ tresult = NoneBody

\* ------------------------------------------------- expected results (GitHub)
Ceil(a, b) == (a + b - 1) \div b

PageOf(i) == ((i - 1) \div PageSize) + 1

\* Items whose creation time lies in the window and that pass the branch filter.
InWindow == {i \in 1..Len(repo) :
               /\ start_datetime <= repo[i].t
               /\ repo[i].t <= end_datetime
               /\ ~BranchMismatch(branch, repo[i])}

Older == {i \in 1..Len(repo) : repo[i].t < start_datetime}

\* Items on which the processing of the running script raises.
Raising == {i \in InWindow :
              \/ repo[i].kind = "bad"
              \/ platform = "github_csv" /\ repo[i].kind = "bad_email"}

\* The list holds exactly the items of S, in the order of the repository.
HoldsExactly(prs, S) ==
  /\ Len(prs) = Cardinality(S)
  /\ \A j \in 1..Len(prs) : prs[j].number \in S
  /\ \A j \in 1..Len(prs) : \A k \in 1..Len(prs) :
        j < k => prs[j].number < prs[k].number

\* Page requests of a run that reads up to the first item older than the
\* window start (or all pages when there is none).
PagesToFirstOlder ==
  IF Older = {}
  THEN IF Len(repo) = 0 THEN 1 ELSE Ceil(Len(repo), PageSize)
  ELSE PageOf(CHOOSE i \in Older : \A j \in Older : i <= j)

\* C1: given pages in descending creation order (every page delivered, no
\* item failing), GitHub get_pull_requests_optimized returns exactly the
\* items with start <= t <= end that pass the branch filter; items newer
\* than the end do not halt pagination, and the page holding the first item
\* older than the start is the last page requested.
C1_ExactWindow ==
  (platform \in GitHub /\ ppc = "done" /\ ~fetch_failed /\ Raising = {})
    => (HoldsExactly(all_prs, InWindow) /\ batch_count = PagesToFirstOlder)

\* C1 witness: a run over two pages that skipped an item newer than the
\* end, returned an in-window item and halted on an older item.
C1_Witness ==
  /\ platform \in GitHub
  /\ ppc = "done"
  /\ ~fetch_failed
  /\ Raising = {}
  /\ batch_count = 2
  /\ Len(all_prs) >= 1
  /\ Len(repo) >= 3
  /\ repo[1].t > end_datetime
  /\ Older # {}

\* C5: in the GitHub CSV variant, when k of the n in-window items raise
\* while being processed, the period reports total_prs =
\* successfully_processed_prs = n - k and failed_prs = k, and every
\* in-window item is in exactly one of the two tallies.  (The result of a
\* period without records has no total_prs key; the key is compared when
\* it is there.)
C5_FailedItemsCounted ==
  (platform = "github_csv" /\ ppc = "done" /\ ~fetch_failed)
    => LET n == Cardinality(InWindow)
           k == Cardinality(Raising)
           tallies == PeriodTallies(all_prs, failed_pr_count)
       IN /\ tallies.total_prs # -1 => tallies.total_prs = n - k
          /\ tallies.successfully_processed_prs = n - k
          /\ tallies.failed_prs = k
          /\ Len(all_prs) + failed_pr_count = n

\* C6: a run whose page fetch returned no payload reports a non-zero
\* failure indicator (so a window that could not be fetched differs from
\* an empty one).
C6_FetchFailureReported ==
  (platform = "github_csv" /\ ppc = "done" /\ fetch_failed)
    => failed_pr_count > 0

\* C8 as claimed: with W items in the window and page size P the GitHub
\* paginator issues at most ceil(W / P) + 1 page requests and requests no
\* page after the one holding the first item older than the start.
C8_RequestsBoundedByWindow ==
  (platform \in GitHub)
    => LET W == Cardinality({i \in 1..Len(repo) :
                 start_datetime <= repo[i].t /\ repo[i].t <= end_datetime})
       IN /\ batch_count <= Ceil(W, PageSize) + 1
          /\ \A i \in Older : batch_count <= PageOf(i)

\* C8 amended: with M items created at or after the window start (inside
\* the window or newer than its end) the GitHub paginator issues at most
\* ceil(M / P) + 1 page requests and requests no page after the one holding
\* the first item older than the start.
C8_RequestsBoundedByNotOlder ==
  (platform \in GitHub)
    => LET M == Cardinality({i \in 1..Len(repo) : repo[i].t >= start_datetime})
       IN /\ batch_count <= Ceil(M, PageSize) + 1
          /\ \A i \in Older : batch_count <= PageOf(i)

\* C8 witness: a finished run that needed ceil(M / P) + 1 requests, one of
\* its M items being newer than the window end.
C8_Witness ==
  /\ platform \in GitHub
  /\ ppc = "done"
  /\ ~fetch_failed
  /\ Older # {}
  /\ \E i \in 1..Len(repo) : repo[i].t > end_datetime
  /\ batch_count = Ceil(Cardinality({i \in 1..Len(repo) :
                                      repo[i].t >= start_datetime}), PageSize) + 1

\* C10: a second run of GitHub get_pull_requests_optimized for the same
\* window on the same calculator, every page of the first run having been
\* delivered and cached, returns the same sequence of PR records and makes
\* no network call.
C10_RerunFromCache ==
  (platform = "github" /\ run = 2 /\ ppc = "done" /\ ~fetch_failed)
    => (all_prs = first_prs /\ ~run_net)

\* C10 witness: a second run over two pages finished after the server data
\* had changed, returning the records of the first run.
C10_Witness ==
  /\ platform = "github"
  /\ run = 2
  /\ ppc = "done"
  /\ ~fetch_failed
  /\ batch_count = 2
  /\ Len(all_prs) >= 1
  /\ serverVer = 2
  /\ \A j \in 1..Len(all_prs) : all_prs[j].ver = 1

\* C7: in Azure offset-mode pagination each request's $skip is the number
\* of raw items of the earlier pages, a page does not halt pagination unless
\* the raw page is short, and so every PR created in the window is returned
\* (or counted as failed).
C7_AzureReturnsWholeWindow ==
  /\ (platform = "azure" /\ ppc = "await")
       => cursor = (batch_count - 1) * PageSize
  /\ (platform = "azure" /\ ppc = "done" /\ ~fetch_failed)
       => /\ Len(RawPage(repo, cursor)) < PageSize
          /\ \A i \in InWindow :
                repo[i].kind = "ok" => \E j \in 1..Len(all_prs) : all_prs[j].number = i

\* C9: in the GitLab and Bitbucket variants pagination halts once an item
\* created before the window start has been seen: no page is requested
\* after the one that holds the first such item.
C9_ListStopsAtWindowStart ==
  (platform \in GitLab \cup {"bitbucket"})
    => \A i \in Older : batch_count <= PageOf(i)

\* C2: for an automation instant A and L weeks the before window is
\* [A - 1 week - L weeks, A - 1 week] and the after window is
\* [A, A + L weeks], as UTC timestamps; A = 2024-06-15T00:00:00Z and L = 2
\* give [2024-05-25T00:00:00Z, 2024-06-08T00:00:00Z] and
\* [2024-06-15T00:00:00Z, 2024-06-29T00:00:00Z].
C2_AutoDateRanges ==
  AUTOMATED_DATE # -1 =>
    /\ before_range # <<>> =>
         /\ before_range =
              << strftime(AUTOMATED_DATE - HoursPerWeek - WEEKS_BACK * HoursPerWeek),
                 strftime(AUTOMATED_DATE - HoursPerWeek) >>
         /\ (AUTOMATED_DATE = June15 /\ WEEKS_BACK = 2) =>
              before_range = << <<2024, 5, 25, 0>>, <<2024, 6, 8, 0>> >>
    /\ after_range # <<>> =>
         /\ after_range =
              << strftime(AUTOMATED_DATE),
                 strftime(AUTOMATED_DATE + WEEKS_BACK * HoursPerWeek) >>
         /\ (AUTOMATED_DATE = June15 /\ WEEKS_BACK = 2) =>
              after_range = << <<2024, 6, 15, 0>>, <<2024, 6, 29, 0>> >>

\* C11: Bitbucket _get treats HTTP 429 as transient: when an attempt within
\* the bound is answered with 429 and Retry-After = N, _get sleeps at least
\* max(N, 60) seconds and sends the request again instead of returning.
C11_RateLimitRetried ==
  [][(get_pc = "handle" /\ response.status = 429 /\ attempt + 1 < MAX_RETRIES)
       => (/\ get_pc' = "send"
           /\ slept' >= slept + RateLimitWait(response))]_vars

\* The worker of task t executes its current statement in this step.
WorkerStep(t) ==
  /\ task_pc[t] \notin {"queued", "finish", "done"}
  /\ task_pc'[t] # task_pc[t]

\* C12: while the thread pool runs process_pr_data, the response cache and
\* the quota counter are the only state written by more than one worker and
\* are touched only under their lock; no other object is changed by
\* concurrent workers without a lock.
C12_SharedStateLocked ==
  /\ [][\A t \in Tasks : WorkerStep(t) =>
          /\ detail_cache' # detail_cache => LockOf(task_pc[t]) = "cache"
          /\ remaining_requests' # remaining_requests => LockOf(task_pc[t]) = "rate"
          /\ (contributor_emails' # contributor_emails /\ Running \ {t} # {})
               => LockOf(task_pc[t]) # "none"]_vars
  /\ [](Cardinality(contributor_emails) <= 1)

\* C13: at every instant at most PoolSize (standing for
\* MAX_PARALLEL_REQUESTS) transport calls of the Azure detail phase are in
\* flight, however many PRs the page holds.
C13_InFlightBounded == Cardinality(InFlight) <= PoolSize

\* A page longer than the pool: PoolSize requests on the wire while a task
\* still waits in the queue.
C13_Witness ==
  /\ Cardinality(InFlight) = PoolSize
  /\ \E t \in Tasks : task_pc[t] = "queued"

\* C14: within one page the records of the output list follow the order in
\* which the API returned the items, also when the page is processed by the
\* thread pool and collected as the tasks complete.
C14_PageOrderPreserved ==
  ppc = "pool" =>
    \A a \in 1..Len(all_prs) : \A b \in 1..Len(all_prs) :
       a < b => all_prs[a].number < all_prs[b].number

\* C15: in every variant with a quota counter, when the counter is below the
\* safety buffer the next transport call is issued only after a pause.  The
\* variants that check before the call (GitHub, Azure) have paused when the
\* request goes out; the variants that check after the response (GitLab)
\* have paused when a call returns with the counter below the buffer.
C15_PauseBelowBuffer ==
  [][/\ (/\ tpc = "post" /\ tpc' = "handle" /\ HasPreCheck(platform)
          /\ remaining_requests < RATE_LIMIT_BUFFER(platform)) => paused
     /\ (/\ tpc = "handle" /\ tpc' = "ret" /\ ~HasPreCheck(platform)
          /\ remaining_requests' < RATE_LIMIT_BUFFER(platform)) => paused']_vars

\* Pages the running period has received.
PagesReceived == IF fetch_failed THEN batch_count - 1 ELSE batch_count

\* C16: a fetch failure in one window of calculate_comparative_metrics ends
\* that window's pagination only: the comparative result is still produced,
\* the result of the beforeAuto period is not touched by the afterAuto
\* period, and the afterAuto result aggregates exactly the in-window records
\* of the pages its own pagination received, whatever happened to the
\* beforeAuto period.
C16_WindowsIndependent ==
  /\ [](ppc = "combined" =>
         /\ combined_metrics.beforeAuto = before_metrics
         /\ combined_metrics.afterAuto = after_metrics
         /\ HoldsExactly(after_metrics.prs, {i \in InWindow : PageOf(i) <= PagesReceived})
         /\ ~fetch_failed => batch_count = PagesToFirstOlder)
  /\ [][before_metrics # NoMetrics => before_metrics' = before_metrics]_vars
  /\ (fetch_failed /\ ppc = "done") ~> (ppc = "combined")

\* C16 witness: the comparative result of a run whose beforeAuto period lost
\* a page to a fetch failure and whose afterAuto period returned records.
C16_Witness ==
  /\ ppc = "combined"
  /\ \A i \in 1..Len(repo) : repo[i].kind = "ok"
  /\ Len(before_metrics.prs) <
       Cardinality({i \in 1..Len(repo) :
                      BeforeRange[1] <= repo[i].t /\ repo[i].t <= BeforeRange[2]})
  /\ after_metrics.prs # <<>>
  /\ ~fetch_failed

\* ------------------------------------------- expected metrics of a record
\* An identity classified as automated by name pattern or by actor type; an
\* absent author counts as automated.
Automated(a) ==
  \/ a.typename \in {"Bot", "null", "missing"}
  \/ EndsWith(a.login, "[bot]")

\* The comments and reviews of the raw item whose author is neither
\* automated nor the author of the item.
Feedback ==
  {i \in 1..Len(pr_node.entries) :
     /\ ~Automated(pr_node.entries[i].author)
     /\ pr_node.entries[i].author.login # pr_node.author.login}

\* C17: the time to first comment of a record is the earliest timestamp of
\* a comment or review by a non-automated identity other than the author,
\* minus the creation time, and is undefined exactly when there is none.
C17_TimeToFirstComment ==
  ppc = "metrics" =>
    pr_metrics.time_to_first_comment =
      (IF Feedback = {} THEN -1
       ELSE SetMin({pr_node.entries[i].t : i \in Feedback}))

\* C18: the time from first comment to follow-up commit is the earliest
\* timestamp, strictly after the first comment, of a commit by the author of
\* the item, minus the first-comment timestamp; it is undefined exactly when
\* the time to first comment is undefined or there is no such commit, and a
\* defined value is positive.
C18_FollowUpCommit ==
  (ppc = "metrics" /\ platform \in GitHub) =>
    LET first == pr_metrics.time_to_first_comment
        followups == {pr_node.commits[i].t : i \in
                        {j \in 1..Len(pr_node.commits) :
                           /\ pr_node.commits[j].t > first
                           /\ pr_node.commits[j].name = pr_node.author.login}}
    IN /\ pr_metrics.time_to_followup =
            (IF first = -1 \/ followups = {} THEN -1 ELSE SetMin(followups) - first)
       /\ pr_metrics.time_to_followup # -1 => pr_metrics.time_to_followup > 0

\* C19: the unique contributors of a period are the non-automated authors,
\* reviewers and commenters of its records, and no automated identity is
\* among them.
C19_UniqueContributors ==
  ppc = "metrics" =>
    LET expected ==
          (IF Automated(pr_node.author) THEN {} ELSE {pr_node.author.login})
            \cup {pr_node.entries[i].author.login : i \in
                    {j \in 1..Len(pr_node.entries) :
                       ~Automated(pr_node.entries[j].author)}}
    IN /\ Cardinality(pr_metrics.unique_contributors) = Cardinality(expected)
       /\ \A a \in Actors \cup {pr_node.author} :
             Automated(a) => a.login \notin pr_metrics.unique_contributors

\* C20: an item whose author field is missing or null becomes a record
\* with is_bot_author = true, does not make the processing of the page
\* raise, and adds nothing to the unique contributors.
C20_MissingAuthorIsBot ==
  (ppc \in {"raised", "record", "metrics"}
     /\ pr_node.author.typename \in {"null", "missing"}) =>
    /\ ppc # "raised"
    /\ ppc \in {"record", "metrics"} => pr_record.is_bot_author
    /\ ppc = "metrics" => pr_record.author \notin pr_metrics.unique_contributors

RECURSIVE ExactSum(_)
\* The sum of a list of numbers in exact arithmetic.
ExactSum(values) ==
  IF values = <<>> THEN 0 ELSE Head(values) + ExactSum(Tail(values))

RECURSIVE Defined(_, _)
\* The defined values of one field of the records.
Defined(prs, field) ==
  IF prs = <<>> THEN <<>>
  ELSE (IF Head(prs)[field] # -1 THEN <<Head(prs)[field]>> ELSE <<>>)
         \o Defined(Tail(prs), field)

\* The average of the defined values of a field: their sum over their number,
\* rounded to hundredths; 0 when no value is defined.
MeanOfDefined(prs, field) ==
  LET d == Defined(prs, field)
  IN IF d = <<>> THEN 0
     ELSE RoundToEven(100 * ExactSum(d), Len(d)) \div Len(d)

\* The additions of the period's sums were all exact.
SummedExactly(prs, field) ==
  LET d == Defined(prs, field)
  IN \A k \in 1..Len(d) :
       ExactSum(SubSeq(d, 1, k)) < Pow2(MantissaBits)

\* C21: each average of a period result (time to merge, time to first
\* comment, time to follow-up commit) is the sum of the values that are
\* defined divided by the number of records whose value is defined; records
\* without the value count neither in the sum nor in the denominator, which
\* is never the number of records of the period.
C21_AverageOverDefined ==
  (ppc = "reported" /\ period_prs # <<>>) =>
    /\ SummedExactly(period_prs, "merged_hours") =>
         period_result.average_time_to_merge_hours
           = MeanOfDefined(period_prs, "merged_hours")
    /\ SummedExactly(period_prs, "time_to_first") =>
         period_result.average_time_to_first_comment_hours
           = MeanOfDefined(period_prs, "time_to_first")
    /\ SummedExactly(period_prs, "time_to_followup") =>
         period_result.average_time_from_first_comment_to_followup_commit_hours
           = MeanOfDefined(period_prs, "time_to_followup")

\* A period of three records whose first-comment times are 2, 4 and None
\* reports the average 3.00.
C21_Witness ==
  /\ ppc = "reported"
  /\ Len(period_prs) = 3
  /\ period_prs[1].time_to_first = 2
  /\ period_prs[2].time_to_first = 4
  /\ period_prs[3].time_to_first = -1
  /\ period_result.average_time_to_first_comment_hours = 300

\* C22: the period result does not depend on the order of the records: for
\* every list of records and every permutation of it, every field of the
\* result (counts, per-week rates, averages, number of unique contributors)
\* has the same value.
C22_OrderIndependent ==
  (ppc = "reported" /\ run = 2) => period_result = first_result

\* C23: in every run of main() no calculator is constructed and no network
\* call is made unless the validation of the configuration succeeded; a
\* number of weeks that is not positive, from the environment or from the
\* interactive prompt, is rejected and the run ends before either.
C23_ValidatedBeforeNetwork ==
  /\ (constructed \/ run_net) => (settings_valid /\ WEEKS_BACK > 0)
  /\ run_net => constructed
  /\ (WEEKS_BACK <= 0 /\ ppc # "main") => ppc \in {"invalid", "exit", "raised"}

\* A run that was given zero or fewer weeks at the prompt has ended without
\* a calculator and without a network call.
C23_Witness ==
  /\ prompted
  /\ WEEKS_BACK <= 0
  /\ ppc = "exit"
  /\ ~constructed
  /\ ~run_net

\* C24: in every platform variant the before window and the after window of
\* one run are disjoint: no instant lies in both closed intervals, so the
\* before window ends before the after window starts.
C24_WindowsDisjoint ==
  (before_range # <<>> /\ after_range # <<>>) =>
    fromisoformat(before_range[2]) < fromisoformat(after_range[1])

RECURSIVE Flatten(_)
\* The concatenation of a list of strings.
Flatten(list) == IF list = <<>> THEN <<>> ELSE Head(list) \o Flatten(Tail(list))

RECURSIVE Without(_, _)
\* A string without the characters of a set.
Without(s, set) ==
  IF s = <<>> THEN <<>>
  ELSE (IF Head(s) \in set THEN <<>> ELSE <<Head(s)>>) \o Without(Tail(s), set)

\* s is a segment of the text: it lies between two separators or ends of the
\* text, up to surrounding whitespace.
IsStrippedSegment(s, text) ==
  \E i \in 1..(Len(text) + 1) : \E j \in (i - 1)..Len(text) :
    /\ i = 1 \/ text[i - 1] = ";"
    /\ j = Len(text) \/ text[j + 1] = ";"
    /\ \A k \in i..j : text[k] # ";"
    /\ \E a \in i..j : \E b \in a..j :
         /\ s = SubSeq(text, a, b)
         /\ \A k \in (i..(a - 1)) \cup ((b + 1)..j) : text[k] \in Whitespace

\* C25: parse_repo_names and parse_project_ids return the semicolon-separated
\* segments of the input in their original order, each without surrounding
\* whitespace and without the empty ones; the empty string and None give the
\* empty list, and no returned name is empty or padded with whitespace.
C25_ParsedNames ==
  ppc = "parsed" =>
    /\ (name_string.is_none \/ name_string.text = <<>>) => names = <<>>
    /\ \A i \in DOMAIN names :
         /\ names[i] # <<>>
         /\ Head(names[i]) \notin Whitespace
         /\ names[i][Len(names[i])] \notin Whitespace
         /\ IsStrippedSegment(names[i], name_string.text)
    /\ Without(Flatten(names), Whitespace)
         = Without(name_string.text, Whitespace \cup {";"})

\* "a;;b" is parsed into the names a and b.
C25_Witness ==
  /\ ppc = "parsed"
  /\ name_string.text = <<"a", ";", ";", "b">>
  /\ names = << <<"a">>, <<"b">> >>

RECURSIVE ExistingNames(_)
\* The last components of the listed paths that exist, one per listed path.
ExistingNames(files) ==
  IF files = <<>> THEN <<>>
  ELSE (IF fs.files[Head(files)] # "missing"
        THEN << <<Head(files)[Len(Head(files))]>> >> ELSE <<>>)
         \o ExistingNames(Tail(files))

\* The archive can be written and every listed file that exists can be read.
Writable ==
  /\ fs.target_writable
  /\ \A i \in DOMAIN csv_files : fs.files[csv_files[i]] # "unreadable"

\* C26: create_results_zip returns False for an empty list and leaves no
\* archive at the target path; for a non-empty list it returns True and the
\* archive holds exactly one entry, named by basename, for each listed file
\* that exists.
C26_ZipOfListedFiles ==
  ppc = "zipped" =>
    /\ csv_files = <<>> => (zip_result = "False" /\ ~archive.exists)
    /\ csv_files # <<>> =>
         /\ zip_result = "True"
         /\ archive.exists
         /\ archive.entries = ExistingNames(csv_files)

\* C26, amended: the non-empty case holds when the archive can be written
\* and every listed file that exists can be read; otherwise the call returns
\* False.
C26_ZipOfReadableFiles ==
  ppc = "zipped" =>
    /\ csv_files = <<>> => (zip_result = "False" /\ ~archive.exists)
    /\ (csv_files # <<>> /\ Writable) =>
         /\ zip_result = "True"
         /\ archive.exists
         /\ archive.entries = ExistingNames(csv_files)
    /\ (csv_files # <<>> /\ ~Writable) => zip_result = "False"

\* A list of one file that exists and one path that does not gave an archive
\* of one entry.
C26_Witness ==
  /\ ppc = "zipped"
  /\ Len(csv_files) = 2
  /\ fs.files[csv_files[1]] = "file"
  /\ fs.files[csv_files[2]] = "missing"
  /\ zip_result = "True"
  /\ archive.entries = << <<"a.csv">> >>

\* C27: within one comparative run both windows and the reported
\* automation_date derive from one automation instant, also when none is
\* configured and the clock is read instead: the before window ends exactly
\* one week before the after window starts, and automation_date is the start
\* of the after window.
C27_OneAutomationInstant ==
  reported_date # <<>> =>
    /\ fromisoformat(before_range[2])
         = fromisoformat(after_range[1]) - HoursPerWeek
    /\ reported_date = after_range[1]

\* C28: in the Azure variant, under every interleaving of up to PoolSize
\* (standing for MAX_PARALLEL_REQUESTS) workers that run check_rate_limit,
\* the HTTP call and update_rate_limit as separately locked steps, the shared
\* counter never falls below RATE_LIMIT_BUFFER - PoolSize.
C28_CounterFloor ==
  remaining_requests >= RATE_LIMIT_BUFFER("azure") - PoolSize

\* The floor is reached: every worker passed the check at the buffer and
\* has counted its request, and none has checked again.
C28_Witness ==
  /\ task_pc # <<>>
  /\ remaining_requests = RATE_LIMIT_BUFFER("azure") - PoolSize


\* Pages of the running call whose futures have all been collected.
PagesCollected ==
  IF ppc = "await" \/ fetch_failed THEN batch_count - 1 ELSE batch_count

\* C29: in Azure get_pull_requests_optimized every in-window PR of every
\* fetched page is accounted exactly once, whatever the order in which the
\* futures of the pool complete and however the workers interleave: between
\* two pages and when the call returns, len(all_prs) + failed_pr_count is the
\* number of in-window items of the pages fetched, inside a page it is the
\* number of futures collected so far, and no PR id is twice in all_prs.
C29_AccountedOnce ==
  /\ \A a \in 1..Len(all_prs) : \A b \in 1..Len(all_prs) :
        a # b => all_prs[a].number # all_prs[b].number
  /\ (platform = "azure" /\ ppc \in {"loop", "await", "done"}) =>
        Len(all_prs) + failed_pr_count =
          Cardinality({i \in InWindow : PageOf(i) <= PagesCollected})
  /\ ppc = "pool" =>
        /\ Len(all_prs) + failed_pr_count =
             Cardinality({t \in DOMAIN task_pc : task_pc[t] = "done"})
        /\ \A a \in 1..Len(all_prs) : task_pc[all_prs[a].number] = "done"

\* A call that returned after two pages, with a record returned, a PR that
\* failed and a PR of a fetched page that lies outside the window.
C29_Witness ==
  /\ platform = "azure"
  /\ ppc = "done"
  /\ batch_count = 2
  /\ Len(all_prs) >= 1
  /\ failed_pr_count >= 1
  /\ \E i \in 1..Len(repo) : i \notin InWindow /\ PageOf(i) <= PagesCollected


\* Pull requests of the repository created at or after the cutoff.
InPeriod == {i \in 1..Len(repo) : repo[i].t >= start_datetime}

\* C30: GitHubPRAnalyzer.get_pull_requests, when every request got a
\* response, returns exactly the pull requests of the repository created at
\* or after the cutoff, for a repository of any size: the page limit never
\* makes it omit one.
C30_ReturnsWholePeriod ==
  (platform = "github_rest" /\ ppc = "done" /\ ~fetch_failed) =>
     HoldsExactly(all_prs, InPeriod)

============================================================================
